---- MODULE Spec2Model ----
(***************************************************************************)
(* A model of graphsnapshot/processors/snapshot_extractor.py.              *)
(*                                                                         *)
(* process_lines is a generator: it reads revision rows from an iterator,  *)
(* buffers the rows of one page (a maximal run of rows with the same page  *)
(* id), sorts the buffer by timestamp when the page changes or the input   *)
(* ends, and sweeps the sorted group against the list of snapshot          *)
(* timestamps, yielding (page revision, timestamp) pairs.                  *)
(*                                                                         *)
(* A row is a record [page_id, revision_id, timestamp]; the other columns  *)
(* are carried along and never read by process_lines.  Revision ids are    *)
(* unique in the input.  Instants are the integers 1..MaxT, EPOCH is 0.    *)
(* The rows are those that follow the optional header and that the csv     *)
(* module parses; the local "counter" only paces the progress dots.        *)
(*                                                                         *)
(* The module also models snapshot_extractor.main's construction of the    *)
(* timestamp list (BuildTimestamps) and the reader of                      *)
(* graphsnapshot/processors/extraction_comparator.py, process_pages, a     *)
(* generator that yields the page groups of one extraction.  Each program  *)
(* has its own variables and its own specification; the variables of the   *)
(* programs a specification does not run stay as they start.               *)
(***************************************************************************)
EXTENDS Integers, Sequences, FiniteSets, TLC

\* ------------------------------------------------------------------ bounds
\* Longest input (number of revision rows the iterator yields).
MaxLen == 3
\* Instants are 1..MaxT, for revisions and for snapshot timestamps alike.
MaxT == 3
\* Page ids are 1..MaxPage.
MaxPage == 2
\* The last date and the current time are at most MaxDays days after
\* WIKIEPOCH.
MaxDays == 40
\* Rows of one input that the csv module rejects.
MaxRejected == 1
\* revisions_analyzed is capped here (the sweep may never end, see OuterLoop).
MaxAnalyzed == MaxLen + 1

\* --------------------------------------------------------------- constants
\* EPOCH = arrow.get(datetime.datetime.fromtimestamp(0)): before every instant.
EPOCH == 0

\* Python's None, as a record so that it compares with rows.
None == [page_id |-> 0, revision_id |-> 0, timestamp |-> 0]

\* A line for which csv.reader raises csv.Error (line 139).
Rejected == [page_id |-> 0, revision_id |-> 0, timestamp |-> 1]

\* redirect_resolver.py, line 29.
MAX_RECURSION == 10

PageIds == 1..MaxPage
RevisionIds == 1..MaxLen
Instants == 1..MaxT

\* Page(id, title, Revision(id, parent_id, timestamp)), built at lines 193-199.
Page == [page_id : PageIds, revision_id : RevisionIds, timestamp : Instants]

VARIABLES
    dump,                \* the rows the iterator has yielded so far, in order
    timestamps,          \* the snapshot timestamps (parameter)
    only_last_revision,  \* parameter
    revision,            \* the row read last (None before the first)
    is_last_revision,
    break_flag,
    dump_prevpage,
    page_revisions,      \* the open group
    sorted_revisions,    \* the group being swept
    i, j,                \* cursors into timestamps and sorted_revisions (0-based)
    prevpage, page, ct, pt,
    pages_analyzed, revisions_analyzed, link_analyzed,   \* stats['performance']
    emitted,             \* the pairs yielded so far, in order
    groups,              \* the groups handed to the sweep so far, in order
    rejects,             \* rows the csv module rejects, still to be read
    pc                   \* "read" | "outer" | "inner" | "done" | "error"

\* extraction_comparator.process_pages (its locals that share a name with
\* one of process_lines carry the prefix pp_).
VARIABLES
    pp_dump,             \* the lines the iterator has yielded so far, in order
    exhausted,           \* next(dump, None) has returned None
    max_timestamp,       \* parameter
    sort_columns,        \* parameter
    pp_only_last_revision,   \* parameter
    line,
    is_last_line,
    pp_page,
    pp_prevpage,
    revisions,           \* the open group: records [lineno, page]
    lineno,
    pp_pages_analyzed, pp_revisions_analyzed,   \* stats
    yielded,             \* the values yielded so far, in order
    pp_pc                \* "run" | "marker" | "group" | "returned" | "error"

lines_vars == <<dump, timestamps, only_last_revision, revision,
                is_last_revision, break_flag, dump_prevpage, page_revisions,
                sorted_revisions, i, j, prevpage, page, ct, pt, pages_analyzed,
                revisions_analyzed, link_analyzed, emitted, groups, rejects,
                pc>>

pages_vars == <<pp_dump, exhausted, max_timestamp, sort_columns,
                pp_only_last_revision, line, is_last_line, pp_page,
                pp_prevpage, revisions, lineno, pp_pages_analyzed,
                pp_revisions_analyzed, yielded, pp_pc>>

\* snapshot_extractor.main, up to the call of process_lines.  Times are in
\* seconds from WIKIEPOCH.
VARIABLES
    periodicity,         \* args.periodicity
    last_date,
    DELTA_days,          \* DELTA.days: whole days from WIKIEPOCH to NOW
    endtime,
    main_pc              \* "idle" | "args" | "built"

main_vars == <<periodicity, last_date, DELTA_days, endtime, main_pc>>

\* extraction_comparator.main, the loop that writes the differences (lines
\* 1160-1221).
VARIABLES
    exit_on_diff,        \* args.exit_on_diff
    header_old,
    header_new,
    difflists,           \* the difflists difflist_generator has yielded so far
    diff_k,              \* entries of the current difflist already visited
    has_diff,
    exit_flag,
    written,             \* the rows given to writer.writerow, in order
    changes,             \* stats['changes']
    cmp_pc               \* "idle" | "for" | "page" | "done" | "error"

writer_vars == <<exit_on_diff, header_old, header_new, difflists, diff_k,
                 has_diff, exit_flag, written, changes, cmp_pc>>

\* extraction_comparator.compare_data, called on two rows.
VARIABLES
    old_data,            \* a dict: a function from its columns to values
    new_data,
    exclude_columns,     \* a set of columns, or NoColumns for None
    all_columns,
    are_equal,           \* the value returned
    cd_pc                \* "idle" | "call" | "returned"

compare_vars == <<old_data, new_data, exclude_columns, all_columns, are_equal,
                  cd_pc>>

\* link_snapshot_extractor.process_lines (the prefix lk_ tells its locals from
\* those of snapshot_extractor.process_lines).
VARIABLES
    lk_dump,                 \* the lines read after the header, in order
    pages_in_snapshot,       \* parameter
    pagetitles_in_snapshot,  \* parameter
    revisions_in_snapshot,   \* parameter
    skip_page,
    dump_prevpage_id,
    dump_page_id,
    dump_prevpage_revision_id,
    dump_page_revision_id,
    lk_stats,                \* stats['performance'] and stats['snapshot']
    lk_yielded,              \* the values yielded so far, in order
    lk_pc                    \* "idle" | "loop" | "done"

link_vars == <<lk_dump, pages_in_snapshot, pagetitles_in_snapshot,
               revisions_in_snapshot, skip_page, dump_prevpage_id,
               dump_page_id, dump_prevpage_revision_id,
               dump_page_revision_id, lk_stats, lk_yielded, lk_pc>>

\* filter_field.process_lines (prefix ft_ where a name is taken).
VARIABLES
    ft_dump,             \* the rows read, in order
    filter_regexes,      \* parameter: a dict, as its items in order
    replace_regexes,     \* parameter: a dict
    prevpage_id,
    prevpage_rev_id,
    ft_stats,
    ft_yielded,          \* the rows yielded so far, in order
    ft_pc                \* "idle" | "loop" | "done" | "error"

filter_vars == <<ft_dump, filter_regexes, replace_regexes, prevpage_id,
                 prevpage_rev_id, ft_stats, ft_yielded, ft_pc>>

\* extraction_comparator.process_dumps.  A page history is stood for by its
\* page id, a generator by the number of values taken from it.
VARIABLES
    old_ids,         \* the page ids of the groups of the old dump, in order
    new_ids,         \* the page ids of the groups of the new dump, in order
    old_generator,   \* values taken from process_pages(old_dump) so far
    new_generator,   \* values taken from process_pages(new_dump) so far
    oldpagehist,     \* 0 before the first read
    newpagehist,
    read_old,
    read_new,
    pd_break_flag,
    compare_calls,   \* the calls of compare_pages, in order
    pd_pc            \* "idle" | "loop" | "done" | "error"

dumps_vars == <<old_ids, new_ids, old_generator, new_generator, oldpagehist,
                newpagehist, read_old, read_new, pd_break_flag,
                compare_calls, pd_pc>>

\* redirect_resolver.read_redirects.
VARIABLES
    redirects,           \* parameter: the rows of the file after the header
    snapshot_date,       \* parameter
    redirects_read,      \* rows taken from redirects_reader so far
    redirect_prevline,
    redirects_history,
    rr_pc                \* "idle" | "loop" | "done"

redirects_vars == <<redirects, snapshot_date, redirects_read,
                    redirect_prevline, redirects_history, rr_pc>>

\* redirect_resolver.process_lines and resolve_redirect (prefix rs_ where a
\* name is taken).
VARIABLES
    snapshot_title2id,       \* parameter
    rs_redirects_history,    \* parameter redirects_history
    rs_dump,                 \* the rows of the snapshot after the header
    rs_counter,              \* rows taken from dump so far
    rs_page,                 \* the argument page of the call to come
    count_recursive_calls,
    rs_result,               \* what the outermost resolve_redirect returned
    rs_stats,
    rs_yielded,              \* the rows yielded so far, in order
    rs_pc                    \* "idle" | "call" | "returned" | "done" | "error"

resolve_vars == <<snapshot_title2id, rs_redirects_history, rs_dump,
                  rs_counter, rs_page, count_recursive_calls, rs_result,
                  rs_stats, rs_yielded, rs_pc>>

vars == <<lines_vars, pages_vars, main_vars, writer_vars, compare_vars,
          link_vars, filter_vars, dumps_vars, redirects_vars, resolve_vars>>

\* None, where a page is expected: a page is its id, its title and its
\* revision id (fields 0, 1 and 2 of a row).
NoResult == [page_id |-> 0, page_title |-> "None", revision_id |-> 0]

\* Lines 291-294 of redirect_resolver.py, before the first row is taken.
ResolveStart ==
    /\ rs_counter = 0
    /\ rs_page = NoResult
    /\ count_recursive_calls = 0
    /\ rs_result = NoResult
    /\ rs_stats = [redirects_analyzed |-> 0, pages_analyzed |-> 0]
    /\ rs_yielded = <<>>

\* redirect_resolver.process_lines is not called.
ResolveIdle ==
    /\ snapshot_title2id = <<>>
    /\ rs_redirects_history = <<>>
    /\ rs_dump = <<>>
    /\ ResolveStart
    /\ rs_pc = "idle"

\* Lines 108-114 of redirect_resolver.py.
RedirectsStart ==
    /\ redirects_read = 0
    /\ redirect_prevline = None
    /\ redirects_history = <<>>

\* redirect_resolver.read_redirects is not called.
RedirectsIdle ==
    /\ redirects = <<>>
    /\ snapshot_date = 0
    /\ RedirectsStart
    /\ rr_pc = "idle"

\* Lines 649-652 of extraction_comparator.py, with the two generators just
\* created (lines 631-647).
DumpsStart ==
    /\ old_generator = 0
    /\ new_generator = 0
    /\ oldpagehist = 0
    /\ newpagehist = 0
    /\ read_old = TRUE
    /\ read_new = TRUE
    /\ pd_break_flag = FALSE
    /\ compare_calls = <<>>

\* extraction_comparator.process_dumps is not called.
DumpsIdle ==
    /\ old_ids = <<>>
    /\ new_ids = <<>>
    /\ DumpsStart
    /\ pd_pc = "idle"

\* Lines 51-58 of filter_field.py (0 stands for None: ids are positive).
FilterStart ==
    /\ ft_dump = <<>>
    /\ prevpage_id = 0
    /\ prevpage_rev_id = 0
    /\ ft_stats = [pages_analyzed |-> 0, revisions_analyzed |-> 0, lines |-> 0]
    /\ ft_yielded = <<>>

\* filter_field.process_lines is not called.
FilterIdle ==
    /\ filter_regexes = <<>>
    /\ replace_regexes = <<>>
    /\ FilterStart
    /\ ft_pc = "idle"

\* Lines 107-124 of link_snapshot_extractor.py: the locals when the loop is
\* entered.
LinkStart ==
    /\ lk_dump = <<>>
    /\ skip_page = FALSE
    /\ dump_prevpage_id = 0
    /\ dump_page_id = 0
    /\ dump_prevpage_revision_id = 0
    /\ dump_page_revision_id = 0
    /\ lk_stats = [pages_analyzed |-> 0, revisions_analyzed |-> 0,
                   links |-> 0, revisions |-> 0]
    /\ lk_yielded = <<>>

\* link_snapshot_extractor.process_lines is not called.
LinkIdle ==
    /\ pages_in_snapshot = {}
    /\ pagetitles_in_snapshot = {}
    /\ revisions_in_snapshot = {}
    /\ LinkStart
    /\ lk_pc = "idle"

\* Lines 1175-1176 and the counters of stats['changes'] the loop updates.
WriterStart ==
    /\ difflists = <<>>
    /\ diff_k = 0
    /\ has_diff = FALSE
    /\ exit_flag = FALSE
    /\ written = <<>>
    /\ changes = [pages |-> 0, additions |-> 0, deletions |-> 0]

\* extraction_comparator.main is not run.
WriterIdle ==
    /\ exit_on_diff = FALSE
    /\ header_old = <<>>
    /\ header_new = <<>>
    /\ WriterStart
    /\ cmp_pc = "idle"

\* Python's None, for exclude_columns.
NoColumns == {"None"}

\* compare_data is not called.
CompareIdle ==
    /\ old_data = <<>>
    /\ new_data = <<>>
    /\ exclude_columns = NoColumns
    /\ all_columns = FALSE
    /\ are_equal = FALSE
    /\ cd_pc = "idle"

\* main is not run.
MainIdle ==
    /\ periodicity = "M"
    /\ last_date = 0
    /\ DELTA_days = 0
    /\ endtime = 0
    /\ main_pc = "idle"

\* Python's None, for a line and for a PageData.
NoLine == [page_id |-> "None", revision_timestamp |-> "None"]

NoPage == [id |-> 0, timestamp |-> 0, data |-> NoLine]

\* Lines 182-196: the locals when process_pages is entered.
PagesStart ==
    /\ pp_dump = <<>>
    /\ exhausted = FALSE
    /\ line = NoLine
    /\ is_last_line = FALSE
    /\ pp_page = NoPage
    /\ pp_prevpage = NoPage
    /\ revisions = <<>>
    /\ lineno = 1
    /\ pp_pages_analyzed = 0
    /\ pp_revisions_analyzed = 0
    /\ yielded = <<>>
    /\ pp_pc = "run"

\* process_pages is not called.
PagesIdle ==
    /\ max_timestamp = MaxT
    /\ sort_columns = <<>>
    /\ pp_only_last_revision = FALSE
    /\ PagesStart

\* ----------------------------------------------------------------- helpers
Range(s) == {s[k] : k \in 1..Len(s)}

Max(S) == CHOOSE x \in S : \A y \in S : y <= x

Min(S) == CHOOSE x \in S : \A y \in S : x <= y

\* The strictly increasing lists over Instants: one per subset.
RECURSIVE Ascending(_)
Ascending(S) ==
    IF S = {} THEN <<>> ELSE <<Min(S)>> \o Ascending(S \ {Min(S)})

StrictlyIncreasing(s) == \A k \in 1..(Len(s) - 1) : s[k] < s[k + 1]

\* ------------------------------------------------------------------ sorted
\* sorted(page_revisions, key=lambda pg: pg.revision.timestamp): the key of
\* the comparison.  An element already placed stays before a later arrival x
\* when its key is not greater than x's (Python's sort is stable).
StaysBefore_unstable(e, x) == e.timestamp < x.timestamp

\* The key (timestamp, revision id) instead of the timestamp alone.
StaysBefore_byid(e, x) ==
    \/ e.timestamp < x.timestamp
    \/ e.timestamp = x.timestamp /\ e.revision_id < x.revision_id

StaysBefore(e, x) == e.timestamp <= x.timestamp

RECURSIVE StableSort(_)
StableSort(revs) ==
    IF revs = <<>> THEN <<>>
    ELSE LET front == StableSort(SubSeq(revs, 1, Len(revs) - 1))
             x == revs[Len(revs)]
             k == Cardinality({m \in 1..Len(front) : StaysBefore(front[m], x)})
         IN SubSeq(front, 1, k) \o <<x>> \o SubSeq(front, k + 1, Len(front))

sorted_identity(revs) == revs

sorted(revs) == StableSort(revs)

\* ------------------------------------------------------------------ reader
\* Line 201: "we are starting now or we have a new page".
IsNewPage_always(prev, cur) == TRUE

IsNewPage(prev, cur) == prev = None \/ prev.page_id # cur.page_id

\* Line 208: the row belongs to the open group.
SamePage_never(prev, cur) == FALSE

SamePage_always(prev, cur) == TRUE

SamePage(prev, cur) == prev = None \/ prev.page_id = cur.page_id

\* Line 239: the open group after a flush.
NewOpenGroup_empty(dump_page) == <<>>

\* The flushed rows are kept and the new row is added to them.
NewOpenGroup_append(dump_page) == Append(page_revisions, dump_page)

NewOpenGroup(dump_page) == <<dump_page>>

\* The rows the iterator may yield next: at most MaxLen rows in all.  Page
\* ids are numbered in the order of their first appearance (they are only
\* compared for equality).  Revision ids are unique; the input lists them
\* either in ascending or in descending order, as its first row decides.
SeenPages == {dump[k].page_id : k \in 1..Len(dump)}

NextRevisionIds ==
    IF dump = <<>> THEN {1, MaxLen}
    ELSE IF dump[1].revision_id = 1 THEN {Len(dump) + 1} ELSE {MaxLen - Len(dump)}

NextRows ==
    IF Len(dump) >= MaxLen THEN {}
    ELSE {r \in Page : /\ r.revision_id \in NextRevisionIds
                       /\ r.page_id <= Cardinality(SeenPages) + 1}

\* What next(dump, None) may return besides None: nothing once the iterator
\* is exhausted, else a row or a line that the csv module rejects.
NextLinesOf(exhausted_already) ==
    IF exhausted_already THEN {}
    ELSE NextRows \cup (IF rejects > 0 THEN {Rejected} ELSE {})

\* ------------------------------------------------------------------- sweep
\* The three comparisons of the inner loop (lines 256, 277, 284).
NotYetExists_never(c, ts) == FALSE

NotYetExists_strict(c, ts) == c >= ts

NotYetExists(c, ts) == c > ts

PrevNewer(p, ts) == p > ts

StillCurrent_strict(c, ts) == c >= ts

StillCurrent(c, ts) == c > ts

\* The sweep's local state, as a record.
SweepState ==
    [i |-> i, j |-> j, prevpage |-> prevpage, page |-> page, ct |-> ct, pt |-> pt]

\* Lines 241-243 left out: the sweep goes on from where the one before it
\* stopped.
SweepInit_stale ==
    [i |-> i, j |-> 0, prevpage |-> prevpage, page |-> None, ct |-> EPOCH, pt |-> EPOCH]

\* Lines 241-243.
SweepInit ==
    [i |-> 0, j |-> 0, prevpage |-> None, page |-> None, ct |-> EPOCH, pt |-> EPOCH]

\* Lines 245-248, with the timestamp cursor set back for each revision.
OuterBody_reset(st, revs) ==
    [st EXCEPT !.i = 0,
               !.page = revs[st.j + 1],
               !.ct = revs[st.j + 1].timestamp,
               !.pt = IF st.prevpage # None THEN st.prevpage.timestamp ELSE EPOCH]

\* Lines 245-248: the head of one iteration of "while j < len(sorted_revisions)".
OuterBody(st, revs) ==
    [st EXCEPT !.page = revs[st.j + 1],
               !.ct = revs[st.j + 1].timestamp,
               !.pt = IF st.prevpage # None THEN st.prevpage.timestamp ELSE EPOCH]

\* Lines 308-313: after the last revision was adopted, it is yielded for ts.
YieldLast_stuck(st, revs, ts) ==
    IF st.j >= Len(revs)
    THEN [st |-> st, out |-> <<[page |-> st.page, ts |-> ts]>>, brk |-> FALSE]
    ELSE [st |-> st, out |-> <<>>, brk |-> FALSE]

YieldLast(st, revs, ts) ==
    IF st.j >= Len(revs)
    THEN [st |-> [st EXCEPT !.i = st.i + 1],
          out |-> <<[page |-> st.page, ts |-> ts]>>, brk |-> FALSE]
    ELSE [st |-> st, out |-> <<>>, brk |-> FALSE]

\* Lines 270-274 and 303-306: the update step.
Adopt(st, revs, ts) ==
    LET st1 == [st EXCEPT !.prevpage = st.page, !.j = st.j + 1]
    IN IF st1.j < Len(revs)
       THEN [st |-> st1, out |-> <<>>, brk |-> TRUE]
       ELSE YieldLast(st1, revs, ts)

\* Lines 251-313: one iteration of "while i < len(timestamps)".  The result
\* is the new local state, the pair yielded (if any) and whether the loop
\* was left by break.
InnerBody(st, revs, tss) ==
    LET ts == tss[st.i + 1]
        next_ts == [st |-> [st EXCEPT !.i = st.i + 1], out |-> <<>>, brk |-> FALSE]
    IN IF st.prevpage = None
       THEN IF NotYetExists(st.ct, ts) THEN next_ts ELSE Adopt(st, revs, ts)
       ELSE IF PrevNewer(st.pt, ts) THEN next_ts
            ELSE IF StillCurrent(st.ct, ts)
                 THEN [st |-> [st EXCEPT !.i = st.i + 1],
                       out |-> <<[page |-> st.prevpage, ts |-> ts]>>, brk |-> FALSE]
                 ELSE Adopt(st, revs, ts)

\* ----------------------------------------------------------------- actions
\* The state when process_lines is entered, up to the only_last_revision
\* parameter (lines 110-121).
Start ==
    /\ revision = None
    /\ is_last_revision = FALSE
    /\ break_flag = FALSE
    /\ dump_prevpage = None
    /\ page_revisions = <<>>
    /\ sorted_revisions = <<>>
    /\ i = 0
    /\ j = 0
    /\ prevpage = None
    /\ page = None
    /\ ct = EPOCH
    /\ pt = EPOCH
    /\ pages_analyzed = 0
    /\ revisions_analyzed = 0
    /\ link_analyzed = 0
    /\ emitted = <<>>
    /\ groups = <<>>
    /\ pc = "read"

\* The default run: --only-last-revision is a store_true option (line 349).
Init ==
    /\ dump = <<>>
    /\ rejects = 0
    /\ timestamps \in {Ascending(S) : S \in SUBSET Instants}
    /\ only_last_revision = FALSE
    /\ Start
    /\ PagesIdle
    /\ MainIdle
    /\ WriterIdle
    /\ CompareIdle
    /\ LinkIdle
    /\ FilterIdle
    /\ DumpsIdle
    /\ RedirectsIdle
    /\ ResolveIdle

\* A run with --only-last-revision.
InitOnlyLast ==
    /\ dump = <<>>
    /\ rejects = 0
    /\ timestamps \in {Ascending(S) : S \in SUBSET Instants}
    /\ only_last_revision = TRUE
    /\ Start
    /\ PagesIdle
    /\ MainIdle
    /\ WriterIdle
    /\ CompareIdle
    /\ LinkIdle
    /\ FilterIdle
    /\ DumpsIdle
    /\ RedirectsIdle
    /\ ResolveIdle

\* Lines 125-239: one iteration of the reader's loop, up to the start of the
\* sweep.  nxt is what next(dump, None) returns.
ReadRow ==
    /\ pc = "read"
    /\ ~break_flag
    /\ \E nxt \in NextLinesOf(is_last_revision) \cup {None} :
         LET rev == IF nxt = None THEN revision ELSE nxt
             last == is_last_revision \/ nxt = None
         IN /\ dump' = IF nxt \in {None, Rejected} THEN dump
                       ELSE Append(dump, nxt)
            /\ rejects' = IF nxt = Rejected THEN rejects - 1 ELSE rejects
            /\ revision' = rev
            /\ is_last_revision' = last
            /\ IF rev = None
               THEN \* empty input: [...][0] raises IndexError (line 138)
                    /\ pc' = "error"
                    /\ UNCHANGED <<dump_prevpage, page_revisions,
                                   sorted_revisions, i, j, prevpage,
                                   pages_analyzed, link_analyzed,
                                   groups>>
               ELSE IF rev = Rejected
               THEN \* csv.Error: continue (lines 139-140)
                    /\ pc' = "read"
                    /\ UNCHANGED <<dump_prevpage, page_revisions,
                                   sorted_revisions, i, j, prevpage,
                                   pages_analyzed, link_analyzed,
                                   groups>>
               ELSE /\ pages_analyzed' =
                         IF IsNewPage(dump_prevpage, rev)
                         THEN pages_analyzed + 1 ELSE pages_analyzed
                    /\ dump_prevpage' = rev
                    /\ IF ~last /\ SamePage(dump_prevpage, rev)
                       THEN /\ page_revisions' = Append(page_revisions, rev)
                            /\ link_analyzed' = link_analyzed + 1
                            /\ pc' = "read"
                            /\ UNCHANGED <<sorted_revisions, i, j, prevpage,
                                           groups>>
                       ELSE /\ sorted_revisions' = sorted(page_revisions)
                            /\ page_revisions' = NewOpenGroup(rev)
                            /\ i' = SweepInit.i
                            /\ j' = SweepInit.j
                            /\ prevpage' = SweepInit.prevpage
                            /\ groups' = Append(groups, sorted_revisions')
                            /\ pc' = "outer"
                            /\ UNCHANGED link_analyzed
    /\ UNCHANGED <<timestamps, only_last_revision, break_flag, page, ct, pt,
                   revisions_analyzed, emitted>>
    /\ UNCHANGED <<pages_vars, main_vars, writer_vars, compare_vars,
                   link_vars, filter_vars, dumps_vars, redirects_vars, resolve_vars>>

\* Lines 244-248 and 317-320, with the timestamps already swept dropped from
\* the list when the sweep of a group is over.
OuterLoop_consume ==
    /\ pc = "outer"
    /\ timestamps' = IF j < Len(sorted_revisions) THEN timestamps
                     ELSE SubSeq(timestamps, i + 1, Len(timestamps))
    /\ IF j < Len(sorted_revisions)
       THEN LET st == OuterBody(SweepState, sorted_revisions)
            IN /\ page' = st.page
               /\ ct' = st.ct
               /\ pt' = st.pt
               /\ i' = st.i
               /\ pc' = "inner"
               /\ UNCHANGED <<break_flag, link_analyzed>>
       ELSE /\ break_flag' = (break_flag \/ is_last_revision)
            /\ link_analyzed' = link_analyzed + 1
            /\ pc' = "read"
            /\ UNCHANGED <<page, ct, pt, i>>
    /\ UNCHANGED <<dump, only_last_revision, revision,
                   is_last_revision, dump_prevpage, page_revisions,
                   sorted_revisions, j, prevpage, pages_analyzed,
                   revisions_analyzed, emitted, groups, rejects>>
    /\ UNCHANGED <<pages_vars, main_vars, writer_vars, compare_vars,
                   link_vars, filter_vars, dumps_vars, redirects_vars, resolve_vars>>

\* Line 244: the test of "while j < len(sorted_revisions)"; when it holds,
\* lines 245-248; when it fails, lines 317-320 (the sweep is over).
OuterLoop ==
    /\ pc = "outer"
    /\ IF j < Len(sorted_revisions)
       THEN LET st == OuterBody(SweepState, sorted_revisions)
            IN /\ page' = st.page
               /\ ct' = st.ct
               /\ pt' = st.pt
               /\ i' = st.i
               /\ pc' = "inner"
               /\ UNCHANGED <<break_flag, link_analyzed>>
       ELSE /\ break_flag' = (break_flag \/ is_last_revision)
            /\ link_analyzed' = link_analyzed + 1
            /\ pc' = "read"
            /\ UNCHANGED <<page, ct, pt, i>>
    /\ UNCHANGED <<dump, timestamps, only_last_revision, revision,
                   is_last_revision, dump_prevpage, page_revisions,
                   sorted_revisions, j, prevpage, pages_analyzed,
                   revisions_analyzed, emitted, groups, rejects>>
    /\ UNCHANGED <<pages_vars, main_vars, writer_vars, compare_vars,
                   link_vars, filter_vars, dumps_vars, redirects_vars, resolve_vars>>

\* Line 250: the test of "while i < len(timestamps)"; when it holds, one
\* iteration of the body; when the loop is left (test failed, or break),
\* line 315.
InnerLoop ==
    /\ pc = "inner"
    /\ IF i < Len(timestamps)
       THEN LET r == InnerBody(SweepState, sorted_revisions, timestamps)
            IN /\ i' = r.st.i
               /\ j' = r.st.j
               /\ prevpage' = r.st.prevpage
               /\ emitted' = emitted \o r.out
               /\ IF r.brk
                  THEN /\ revisions_analyzed < MaxAnalyzed
                       /\ revisions_analyzed' = revisions_analyzed + 1
                       /\ pc' = "outer"
                  ELSE /\ pc' = "inner"
                       /\ UNCHANGED revisions_analyzed
       ELSE /\ revisions_analyzed < MaxAnalyzed
            /\ revisions_analyzed' = revisions_analyzed + 1
            /\ pc' = "outer"
            /\ UNCHANGED <<i, j, prevpage, emitted>>
    /\ UNCHANGED <<dump, timestamps, only_last_revision, revision,
                   is_last_revision, break_flag, dump_prevpage, page_revisions,
                   sorted_revisions, page, ct, pt, pages_analyzed,
                   link_analyzed, groups, rejects>>
    /\ UNCHANGED <<pages_vars, main_vars, writer_vars, compare_vars,
                   link_vars, filter_vars, dumps_vars, redirects_vars, resolve_vars>>

\* Lines 126-127.
Break ==
    /\ pc = "read"
    /\ break_flag
    /\ pc' = "done"
    /\ UNCHANGED <<dump, timestamps, only_last_revision, revision,
                   is_last_revision, break_flag, dump_prevpage, page_revisions,
                   sorted_revisions, i, j, prevpage, page, ct, pt,
                   pages_analyzed, revisions_analyzed, link_analyzed, emitted,
                   groups, rejects>>
    /\ UNCHANGED <<pages_vars, main_vars, writer_vars, compare_vars,
                   link_vars, filter_vars, dumps_vars, redirects_vars, resolve_vars>>

\* The timestamp lists of two or more instants that are not strictly
\* increasing: process_lines takes any list (lines 94-121 do not look at it).
Unordered ==
    {s \in UNION {[1..n -> Instants] : n \in 2..MaxT} : ~StrictlyIncreasing(s)}

\* A run on a timestamp list that is not strictly increasing.
InitUnordered ==
    /\ dump = <<>>
    /\ rejects = 0
    /\ timestamps \in Unordered
    /\ only_last_revision = FALSE
    /\ Start
    /\ PagesIdle
    /\ MainIdle
    /\ WriterIdle
    /\ CompareIdle
    /\ LinkIdle
    /\ FilterIdle
    /\ DumpsIdle
    /\ RedirectsIdle
    /\ ResolveIdle

Next == ReadRow \/ OuterLoop \/ InnerLoop \/ Break

Spec == Init /\ [][Next]_vars

SpecOnlyLast == InitOnlyLast /\ [][Next]_vars

SpecUnordered == InitUnordered /\ [][Next]_vars

\* A run on an input with lines that the csv module rejects.
InitRejected ==
    /\ dump = <<>>
    /\ rejects \in 1..MaxRejected
    /\ timestamps \in {Ascending(S) : S \in SUBSET Instants}
    /\ only_last_revision = FALSE
    /\ Start
    /\ PagesIdle
    /\ MainIdle
    /\ WriterIdle
    /\ CompareIdle
    /\ LinkIdle
    /\ FilterIdle
    /\ DumpsIdle
    /\ RedirectsIdle
    /\ ResolveIdle

SpecRejected == InitRejected /\ [][Next]_vars

\* ------------------------------------------ extraction_comparator.process_pages
\* A line of an extraction, as the text of the two columns process_pages
\* reads.  "x" is a text that is neither a number nor a date.
RawPageIds == {ToString(n) : n \in PageIds} \cup {"x"}

RawTimestamps == {ToString(t) : t \in Instants} \cup {"x"}

Lines == [page_id : RawPageIds, revision_timestamp : RawTimestamps]

\* A line the csv module rejects (csv.Error, line 214).
Unreadable == [page_id |-> "csv.Error", revision_timestamp |-> "csv.Error"]

\* Lines 223-226: int(data['page_id']), and -1 when int() raises.
ParsesAsPageId(text) == \E n \in PageIds : ToString(n) = text

ParsePageId(text) ==
    IF ParsesAsPageId(text) THEN CHOOSE n \in PageIds : ToString(n) = text
    ELSE -1

\* Lines 228-232: arrow.get(data['revision_timestamp']), and arrow.get(0)
\* when it raises.
ParsesAsTimestamp(text) == \E t \in Instants : ToString(t) = text

ParseTimestamp(text) ==
    IF ParsesAsTimestamp(text) THEN CHOOSE t \in Instants : ToString(t) = text
    ELSE 0

\* Line 234.
PageData(data) ==
    [id |-> ParsePageId(data.page_id),
     timestamp |-> ParseTimestamp(data.revision_timestamp),
     data |-> data]

\* Lines 157-170: the key of a record of the open group, for a list of
\* column names.  A name that is none of the three is looked up in the line
\* (line 167), which has no such column: KeyError.
KeyColumns == {"revision_timestamp", "page_id", "lineno"}

HasKey(columns) == \A k \in 1..Len(columns) : columns[k] \in KeyColumns

mysort(columns, rev) ==
    [k \in 1..(Len(columns) + 1) |->
        IF k > Len(columns) THEN rev.lineno
        ELSE IF columns[k] = "revision_timestamp" THEN rev.page.timestamp
        ELSE IF columns[k] = "page_id" THEN rev.page.id
        ELSE rev.lineno]

\* Python's order on lists of numbers.
RECURSIVE ListLeq(_, _)
ListLeq(a, b) ==
    IF a = <<>> THEN TRUE
    ELSE IF b = <<>> THEN FALSE
    ELSE IF a[1] # b[1] THEN a[1] < b[1]
    ELSE ListLeq(Tail(a), Tail(b))

\* sorted(revisions, key=sort_revisions(columns)), stable.
RECURSIVE SortedBy(_, _)
SortedBy(columns, revs) ==
    IF revs = <<>> THEN <<>>
    ELSE LET front == SortedBy(columns, SubSeq(revs, 1, Len(revs) - 1))
             x == revs[Len(revs)]
             k == Cardinality({m \in 1..Len(front) :
                                 ListLeq(mysort(columns, front[m]),
                                         mysort(columns, x))})
         IN SubSeq(front, 1, k) \o <<x>> \o SubSeq(front, k + 1, Len(front))

\* Line 196: sort_revisions('revision_timestamp') is given a string, and
\* "for col in sort_columns" (line 159) runs over its characters.
timestamp_sort ==
    <<"r", "e", "v", "i", "s", "i", "o", "n", "_",
      "t", "i", "m", "e", "s", "t", "a", "m", "p">>

\* The values of --sort-columns the model runs: none, the default, and the
\* timestamp alone (lines 1143-1144).
SortColumns == {<<>>, <<"lineno", "revision_timestamp">>, <<"revision_timestamp">>}

\* The generator yields at most MaxYields values (it may never end, see
\* PagesRead).
MaxYields == MaxLen + 3

\* The values a generator yields: None (line 287) or a group (line 315).
YieldNone == [kind |-> "None", group |-> <<>>]

YieldGroup(revs) == [kind |-> "group", group |-> revs]

\* The lines the iterator may yield next: at most MaxLen in all.  Page ids
\* are numbered in the order of their first appearance.
SeenPageIds ==
    {pp_dump[k].page_id : k \in 1..Len(pp_dump)} \ {"x", Unreadable.page_id}

NextLines ==
    IF exhausted \/ Len(pp_dump) >= MaxLen THEN {}
    ELSE {l \in Lines :
             ParsesAsPageId(l.page_id) =>
                 ParsePageId(l.page_id) <= Cardinality(SeenPageIds) + 1}
         \cup {Unreadable}

\* process_lines is not called.
LinesIdle ==
    /\ dump = <<>>
    /\ rejects = 0
    /\ timestamps = <<>>
    /\ only_last_revision = FALSE
    /\ Start

InitPages ==
    /\ max_timestamp \in Instants
    /\ sort_columns \in SortColumns
    /\ pp_only_last_revision \in BOOLEAN
    /\ PagesStart
    /\ LinesIdle
    /\ MainIdle
    /\ WriterIdle
    /\ CompareIdle
    /\ LinkIdle
    /\ FilterIdle
    /\ DumpsIdle
    /\ RedirectsIdle
    /\ ResolveIdle

\* Lines 296-315: the group is sorted and yielded; with only_last_revision
\* the key of line 313 raises KeyError (or [-1] raises IndexError on an
\* empty group).
YieldSorted ==
    LET sorted_group == IF sort_columns # <<>>
                        THEN SortedBy(sort_columns, revisions)
                        ELSE revisions
    IN IF pp_only_last_revision
       THEN IF HasKey(timestamp_sort) /\ revisions # <<>>
            THEN /\ yielded' = Append(yielded,
                        YieldGroup(<<SortedBy(timestamp_sort, revisions)[Len(revisions)]>>))
                 /\ pp_pc' = "group"
            ELSE /\ pp_pc' = "error"
                 /\ UNCHANGED yielded
       ELSE /\ yielded' = Append(yielded, YieldGroup(sorted_group))
            /\ pp_pc' = "group"

\* Lines 198-295: one iteration of "while True", up to the end of the
\* iteration or to the next yield.  nxt is what next(dump, None) returns.
PagesRead ==
    /\ pp_pc = "run"
    /\ Len(yielded) < MaxYields
    /\ \E nxt \in NextLines \cup {NoLine} :
         LET last == nxt = NoLine
             cur == IF last THEN line ELSE nxt
             pg == PageData(cur)
             before == pp_page
         IN /\ pp_dump' = IF last THEN pp_dump ELSE Append(pp_dump, nxt)
            /\ exhausted' = (exhausted \/ last)
            /\ pp_prevpage' = before
            /\ is_last_line' = last
            /\ line' = cur
            /\ lineno' = lineno + 1
            /\ IF cur = NoLine
               THEN \* empty input: [...][0] raises IndexError (line 213)
                    /\ pp_pc' = "error"
                    /\ UNCHANGED <<pp_page, revisions, pp_pages_analyzed,
                                   pp_revisions_analyzed, yielded>>
               ELSE IF cur = Unreadable
               THEN \* csv.Error: return None (line 215)
                    /\ pp_pc' = "returned"
                    /\ UNCHANGED <<pp_page, revisions, pp_pages_analyzed,
                                   pp_revisions_analyzed, yielded>>
               ELSE /\ pp_page' = pg
                    /\ pp_pages_analyzed' =
                         IF before = NoPage \/ before.id # pg.id
                         THEN pp_pages_analyzed + 1 ELSE pp_pages_analyzed
                    /\ IF ~last /\ (before = NoPage \/ before.id = pg.id)
                       THEN /\ IF pg.timestamp <= max_timestamp
                               THEN /\ revisions' = Append(revisions,
                                          [lineno |-> lineno', page |-> pg])
                                    /\ pp_revisions_analyzed' =
                                          pp_revisions_analyzed + 1
                               ELSE UNCHANGED <<revisions,
                                                pp_revisions_analyzed>>
                            /\ pp_pc' = "run"
                            /\ UNCHANGED yielded
                       ELSE /\ UNCHANGED <<revisions, pp_revisions_analyzed>>
                            /\ IF last
                               THEN /\ yielded' = Append(yielded, YieldNone)
                                    /\ pp_pc' = "marker"
                               ELSE YieldSorted
    /\ UNCHANGED <<max_timestamp, sort_columns, pp_only_last_revision>>
    /\ UNCHANGED <<lines_vars, main_vars, writer_vars, compare_vars,
                   link_vars, filter_vars, dumps_vars, redirects_vars, resolve_vars>>

\* The generator is resumed after "yield None" (line 287): lines 296-315.
PagesResumeMarker ==
    /\ pp_pc = "marker"
    /\ YieldSorted
    /\ UNCHANGED <<pp_dump, exhausted, max_timestamp, sort_columns,
                   pp_only_last_revision, line, is_last_line, pp_page,
                   pp_prevpage, revisions, lineno, pp_pages_analyzed,
                   pp_revisions_analyzed>>
    /\ UNCHANGED <<lines_vars, main_vars, writer_vars, compare_vars,
                   link_vars, filter_vars, dumps_vars, redirects_vars, resolve_vars>>

\* The generator is resumed after "yield sorted_revisions" (line 315): lines
\* 316-340, and back to the head of "while True".
PagesResumeGroup ==
    /\ pp_pc = "group"
    /\ pp_prevpage' = pp_page
    /\ revisions' = <<[lineno |-> lineno, page |-> pp_page]>>
    /\ pp_pc' = "run"
    /\ UNCHANGED <<pp_dump, exhausted, max_timestamp, sort_columns,
                   pp_only_last_revision, line, is_last_line, pp_page, lineno,
                   pp_pages_analyzed, pp_revisions_analyzed, yielded>>
    /\ UNCHANGED <<lines_vars, main_vars, writer_vars, compare_vars,
                   link_vars, filter_vars, dumps_vars, redirects_vars, resolve_vars>>

NextPages == PagesRead \/ PagesResumeMarker \/ PagesResumeGroup

SpecPages == InitPages /\ [][NextPages]_vars

\* ------------------------------------------------- snapshot_extractor.main
\* Line 32: WIKIEPOCH, 2001-01-15 00:00, is the origin of the times.
WIKIEPOCH == 0

Days(n) == n * 86400

\* The calendar behind arrow's shifts by months and years.  A date is a
\* record [y, m, d].
IsLeap(y) == y % 4 = 0 /\ (y % 100 # 0 \/ y % 400 = 0)

DaysInMonth(y, m) ==
    IF m = 2 THEN (IF IsLeap(y) THEN 29 ELSE 28)
    ELSE IF m \in {4, 6, 9, 11} THEN 30 ELSE 31

\* The date n days after the first day of month m of year y.
RECURSIVE DateAfter(_, _, _)
DateAfter(y, m, n) ==
    IF n < DaysInMonth(y, m) THEN [y |-> y, m |-> m, d |-> n + 1]
    ELSE IF m = 12 THEN DateAfter(y + 1, 1, n - DaysInMonth(y, m))
    ELSE DateAfter(y, m + 1, n - DaysInMonth(y, m))

\* The days from 2001-01-01 to the first day of month m of year y.
RECURSIVE DaysTo(_, _)
DaysTo(y, m) ==
    IF y = 2001 /\ m = 1 THEN 0
    ELSE IF m = 1 THEN DaysTo(y - 1, 12) + DaysInMonth(y - 1, 12)
    ELSE DaysTo(y, m - 1) + DaysInMonth(y, m - 1)

\* The date of a day counted from WIKIEPOCH, and back.
DateOf(day) == DateAfter(2001, 1, day + 14)

DayOf(date) == DaysTo(date.y, date.m) + date.d - 15

\* A date moved by n months: the day of the month is kept, or is the last
\* day of the month reached when that month is shorter.
ShiftMonths(date, n) ==
    LET total == date.m - 1 + n
        y == date.y + (total \div 12)
        m == (total % 12) + 1
    IN [y |-> y, m |-> m, d |-> Min({date.d, DaysInMonth(y, m)})]

\* t.replace(**{unit: n}) with a plural unit, as lines 389-396 use it: the
\* time t moved by n units.
Shift(t, unit, n) ==
    LET day == t \div Days(1)
        second == t % Days(1)
    IN IF unit = "seconds" THEN t + n
       ELSE IF unit = "days" THEN t + Days(n)
       ELSE IF unit = "weeks" THEN t + Days(7 * n)
       ELSE IF unit = "months"
       THEN Days(DayOf(ShiftMonths(DateOf(day), n))) + second
       ELSE Days(DayOf(ShiftMonths(DateOf(day), 12 * n))) + second

\* Lines 37-42: the unit of a periodicity.
PERIODICITY(p) ==
    IF p = "d" THEN "days"
    ELSE IF p = "w" THEN "weeks"
    ELSE IF p = "M" THEN "months"
    ELSE "years"

\* Lines 45-50 without the margin of two periods.
NPERIODS_nomargin(p, days) ==
    IF p = "d" THEN days
    ELSE IF p = "w" THEN days \div 7
    ELSE IF p = "M" THEN days \div 28
    ELSE days \div 365

\* Lines 45-50.
NPERIODS(p, days) ==
    IF p = "d" THEN days + 2
    ELSE IF p = "w" THEN (days \div 7) + 2
    ELSE IF p = "M" THEN (days \div 28) + 2
    ELSE (days \div 365) + 2

\* Python's range(n), as a sequence.
range(n) == [k \in 1..n |-> k - 1]

\* WIKIEPOCH.replace(**period(k)) (lines 394 and 396).
Instant(p, k) == Shift(WIKIEPOCH, PERIODICITY(p), k)

\* Lines 394-397: the list comprehension.
RECURSIVE Comprehension(_, _, _)
Comprehension(ks, p, bound) ==
    IF ks = <<>> THEN <<>>
    ELSE IF Instant(p, Head(ks)) <= bound
         THEN <<Instant(p, Head(ks))>> \o Comprehension(Tail(ks), p, bound)
         ELSE Comprehension(Tail(ks), p, bound)

\* main is entered with a periodicity and a last date (a day, from
\* --last-date or from the name of the input), at some current time.
InitMain ==
    /\ periodicity \in {"d", "w", "M", "y"}
    /\ last_date \in {Days(n) : n \in 0..MaxDays}
    /\ DELTA_days \in 0..MaxDays
    /\ endtime = 0
    /\ main_pc = "args"
    /\ LinesIdle
    /\ PagesIdle
    /\ WriterIdle
    /\ CompareIdle
    /\ LinkIdle
    /\ FilterIdle
    /\ DumpsIdle
    /\ RedirectsIdle
    /\ ResolveIdle

\* Lines 388-397.
BuildTimestamps ==
    /\ main_pc = "args"
    /\ last_date' = Shift(Shift(last_date, "days", 2), "seconds", -1)
    /\ endtime' = Shift(last_date', PERIODICITY(periodicity), 1)
    /\ timestamps' = Comprehension(range(NPERIODS(periodicity, DELTA_days)),
                                   periodicity, endtime')
    /\ main_pc' = "built"
    /\ UNCHANGED <<periodicity, DELTA_days>>
    /\ UNCHANGED <<dump, only_last_revision, revision, is_last_revision,
                   break_flag, dump_prevpage, page_revisions, sorted_revisions,
                   i, j, prevpage, page, ct, pt, pages_analyzed,
                   revisions_analyzed, link_analyzed, emitted, groups, rejects,
                   pc>>
    /\ UNCHANGED <<pages_vars, writer_vars, compare_vars, link_vars,
                   filter_vars, dumps_vars, redirects_vars, resolve_vars>>

NextMain == BuildTimestamps

SpecMain == InitMain /\ [][NextMain]_vars

\* ------------------------------------------- extraction_comparator.main
\* The loop of lines 1175-1221 over what difflist_generator yields: one
\* difflist for each page id found in both extractions (process_dumps, line
\* 690), a sequence of entries (change, lineno, data).  An entry is a record
\* [change, lineno]; its data are a row of the new extraction for '+' and of
\* the old one for '-' (compute_diff, lines 416-429), a dict with the columns
\* of that extraction's header (line 216).

\* Pages compared in one run.
MaxCompared == 3
\* Entries in one difflist.
MaxDiffs == 2

Headers == {<<"page_id">>, <<"page_id", "user">>}

Changes == {"+", "-"}

Difflists ==
    UNION {{[k \in 1..n |-> [change |-> f[k], lineno |-> k]] :
                f \in [1..n -> Changes]} : n \in 0..MaxDiffs}

\* Lines 1160-1161.
one_header == Range(header_old) \ Range(header_new) = {}

\* Line 1163: the columns of the DictWriter when there is one header.
fieldnames == {"change", "lineno"} \cup Range(header_old)

\* The keys of diff[2].
changedata(diff) ==
    IF diff.change = "+" THEN Range(header_new) ELSE Range(header_old)

\* Lines 1187-1202: whether building and writing the row raises.  With one
\* header, writerow raises ValueError for a key that is not a fieldname;
\* without, line 1194 reads the undefined name changedatachangedata.
RowRaises(diff) ==
    IF one_header
    THEN ~(({"change", "lineno"} \cup changedata(diff)) \subseteq fieldnames)
    ELSE TRUE

\* The row written for an entry of the n-th difflist.
Row(n, diff) == [page |-> n, change |-> diff.change, lineno |-> diff.lineno]

InitWriter ==
    /\ exit_on_diff \in BOOLEAN
    /\ header_old \in Headers
    /\ header_new \in Headers
    /\ WriterStart
    /\ cmp_pc = "for"
    /\ LinesIdle
    /\ PagesIdle
    /\ MainIdle
    /\ CompareIdle
    /\ LinkIdle
    /\ FilterIdle
    /\ DumpsIdle
    /\ RedirectsIdle
    /\ ResolveIdle

\* Line 1176: the for statement asks the generator for the next difflist.
NextDifflist ==
    /\ cmp_pc = "for"
    /\ \/ \E difflist \in Difflists :
            /\ Len(difflists) < MaxCompared
            /\ difflists' = Append(difflists, difflist)
            /\ has_diff' = FALSE
            /\ diff_k' = 0
            /\ cmp_pc' = "page"
       \/ /\ cmp_pc' = "done"
          /\ UNCHANGED <<difflists, has_diff, diff_k>>
    /\ UNCHANGED <<exit_on_diff, header_old, header_new, exit_flag, written,
                   changes>>
    /\ UNCHANGED <<lines_vars, pages_vars, main_vars, compare_vars,
                   link_vars, filter_vars, dumps_vars, redirects_vars, resolve_vars>>

\* Lines 1179-1212: one iteration of the inner loop (an entry is a tuple of
\* three, never empty).
WriteDiff ==
    /\ cmp_pc = "page"
    /\ diff_k < Len(difflists[Len(difflists)])
    /\ LET diff == difflists[Len(difflists)][diff_k + 1] IN
        /\ has_diff' = TRUE
        /\ IF RowRaises(diff)
           THEN /\ cmp_pc' = "error"
                /\ UNCHANGED <<diff_k, written, changes, exit_flag>>
           ELSE /\ written' = Append(written, Row(Len(difflists), diff))
                /\ changes' =
                     IF diff.change = "+"
                     THEN [changes EXCEPT !.additions = @ + 1]
                     ELSE [changes EXCEPT !.deletions = @ + 1]
                /\ exit_flag' = (exit_flag \/ exit_on_diff)
                /\ diff_k' = diff_k + 1
                /\ cmp_pc' = "page"
    /\ UNCHANGED <<exit_on_diff, header_old, header_new, difflists>>
    /\ UNCHANGED <<lines_vars, pages_vars, main_vars, compare_vars,
                   link_vars, filter_vars, dumps_vars, redirects_vars, resolve_vars>>

\* Lines 1215-1221: the difflist is exhausted.
EndPage ==
    /\ cmp_pc = "page"
    /\ diff_k = Len(difflists[Len(difflists)])
    /\ changes' = IF has_diff THEN [changes EXCEPT !.pages = @ + 1]
                  ELSE changes
    /\ cmp_pc' = IF exit_on_diff /\ exit_flag THEN "done" ELSE "for"
    /\ UNCHANGED <<exit_on_diff, header_old, header_new, difflists, diff_k,
                   has_diff, exit_flag, written>>
    /\ UNCHANGED <<lines_vars, pages_vars, main_vars, compare_vars,
                   link_vars, filter_vars, dumps_vars, redirects_vars, resolve_vars>>

NextWriter == NextDifflist \/ WriteDiff \/ EndPage

SpecWriter == InitWriter /\ [][NextWriter]_vars

\* --------------------------------- extraction_comparator.compare_data
\* A row is a dict from the columns of its header to their fields.
Columns == {"page_id", "revision_id", "user"}

Fields == {"x", "y"}

Dicts == UNION {[S -> Fields] : S \in SUBSET Columns}

\* Lines 349-365, without the loop over d2.
equal_dicts_oneway(d1, d2, keys_to_compare) ==
    \A k1 \in DOMAIN d1 :
        k1 \in keys_to_compare => (k1 \in DOMAIN d2 /\ d2[k1] = d1[k1])

\* Lines 349-365.
equal_dicts(d1, d2, keys_to_compare) ==
    /\ \A k1 \in DOMAIN d1 :
        k1 \in keys_to_compare => (k1 \in DOMAIN d2 /\ d2[k1] = d1[k1])
    /\ \A k2 \in DOMAIN d2 :
        k2 \in keys_to_compare => k2 \in DOMAIN d1

\* Lines 368-387.  "if exclude_columns" is false for None and for no column.
compare_data(old, new, excluded, all) ==
    LET old_keys == DOMAIN old
        new_keys == DOMAIN new
        columns == IF all THEN old_keys \cup new_keys
                   ELSE old_keys \cap new_keys
        columns_to_compare ==
            IF excluded # NoColumns /\ excluded # {}
            THEN columns \ excluded ELSE columns
    IN  equal_dicts(old, new, columns_to_compare)

InitCompare ==
    /\ old_data \in Dicts
    /\ new_data \in Dicts
    /\ exclude_columns \in {NoColumns} \cup SUBSET Columns
    /\ all_columns \in BOOLEAN
    /\ are_equal = FALSE
    /\ cd_pc = "call"
    /\ LinesIdle
    /\ PagesIdle
    /\ MainIdle
    /\ WriterIdle
    /\ LinkIdle
    /\ FilterIdle
    /\ DumpsIdle
    /\ RedirectsIdle
    /\ ResolveIdle

\* The call of lines 404-407.
CompareData ==
    /\ cd_pc = "call"
    /\ are_equal' = compare_data(old_data, new_data, exclude_columns,
                                 all_columns)
    /\ cd_pc' = "returned"
    /\ UNCHANGED <<old_data, new_data, exclude_columns, all_columns>>
    /\ UNCHANGED <<lines_vars, pages_vars, main_vars, writer_vars, link_vars,
                   filter_vars, dumps_vars, redirects_vars, resolve_vars>>

NextCompare == CompareData

SpecCompare == InitCompare /\ [][NextCompare]_vars

\* ------------------------- link_snapshot_extractor.process_lines
\* A line of the input is a record of what the two parsers make of it:
\*   matched, page_id, re_revision_id: whether splitline_re (line 54),
\*     ^([0-9]{2,}),.+?,([0-9]+), matches it, and its groups 1 and 2.  The
\*     pattern wants a page id of two digits or more, and its group 2 is the
\*     first run of digits between two commas after the page id: the revision
\*     id, unless the quoted title holds such a run ("1,2,3-Trichloropropane");
\*   csv_ok, page_id, revision_id: whether csv.reader accepts it, and its
\*     fields 0 and 2.
\* Group 1 is field 0 whenever both parsers accept the line.
LinkRevisionIds == 1..2

LinkLines ==
    \* both parsers accept the line
    {[matched |-> TRUE, csv_ok |-> TRUE, page_id |-> p, revision_id |-> r,
      re_revision_id |-> g] :
        p \in PageIds, r \in LinkRevisionIds, g \in LinkRevisionIds}
    \* csv.reader rejects it
    \cup {[matched |-> TRUE, csv_ok |-> FALSE, page_id |-> p,
           revision_id |-> g, re_revision_id |-> g] :
        p \in PageIds, g \in LinkRevisionIds}
    \* a line good for csv.reader that the pattern does not match
    \cup {[matched |-> FALSE, csv_ok |-> TRUE, page_id |-> p,
           revision_id |-> r, re_revision_id |-> r] :
        p \in PageIds, r \in LinkRevisionIds}
    \* a line neither accepts
    \cup {[matched |-> FALSE, csv_ok |-> FALSE, page_id |-> 1,
           revision_id |-> 1, re_revision_id |-> 1]}

\* Python's None for a line.
NoLinkLine ==
    [matched |-> FALSE, csv_ok |-> FALSE, page_id |-> 0, revision_id |-> 0,
     re_revision_id |-> 0]

\* The link of every line (field 9), normalized.
wikilink == "L"

\* Line 149.
SkipLine(skip, prev_id, id) == skip /\ prev_id = id

InitLink ==
    /\ pages_in_snapshot \in SUBSET PageIds
    /\ pagetitles_in_snapshot \in SUBSET {wikilink}
    /\ revisions_in_snapshot \in SUBSET LinkRevisionIds
    /\ LinkStart
    /\ lk_pc = "loop"
    /\ LinesIdle
    /\ PagesIdle
    /\ MainIdle
    /\ WriterIdle
    /\ CompareIdle
    /\ FilterIdle
    /\ DumpsIdle
    /\ RedirectsIdle
    /\ ResolveIdle

\* Lines 128-254: one iteration of "while True".  linkline is what
\* next(dump, None) returns.
LinkRead ==
    /\ lk_pc = "loop"
    /\ \E linkline \in (IF Len(lk_dump) < MaxLen THEN LinkLines ELSE {})
                           \cup {NoLinkLine} :
        IF linkline = NoLinkLine
        THEN /\ lk_pc' = "done"
             /\ UNCHANGED <<lk_dump, skip_page, dump_prevpage_id,
                            dump_page_id, dump_prevpage_revision_id,
                            dump_page_revision_id, lk_stats, lk_yielded>>
        ELSE
        LET id == IF linkline.matched THEN linkline.page_id ELSE dump_page_id
            rev_id == IF linkline.matched THEN linkline.re_revision_id
                      ELSE dump_page_revision_id
            skipped == SkipLine(skip_page, dump_prevpage_id, id)
            new_page == dump_prevpage_id # id
            in_pages == id \in pages_in_snapshot
            in_revisions == rev_id \in revisions_in_snapshot
            yields == /\ linkline.matched
                      /\ ~skipped
                      /\ in_pages
                      /\ in_revisions
                      /\ linkline.csv_ok
            new_revision == dump_prevpage_revision_id # rev_id
        IN /\ lk_dump' = Append(lk_dump, linkline)
           /\ lk_pc' = "loop"
           /\ dump_page_id' = id
           /\ dump_page_revision_id' = rev_id
           /\ dump_prevpage_id' = IF linkline.matched THEN id
                                  ELSE dump_prevpage_id
           /\ skip_page' = IF ~linkline.matched \/ skipped THEN skip_page
                           ELSE ~in_pages
           /\ dump_prevpage_revision_id' =
                IF yields THEN rev_id ELSE dump_prevpage_revision_id
           /\ lk_yielded' =
                IF yields
                THEN Append(lk_yielded,
                            [line |-> linkline,
                             active_link |->
                                IF wikilink \in pagetitles_in_snapshot
                                THEN 1 ELSE 0])
                ELSE lk_yielded
           /\ lk_stats' =
                [revisions_analyzed |-> lk_stats.revisions_analyzed + 1,
                 pages_analyzed |->
                    IF linkline.matched /\ ~skipped /\ new_page
                    THEN lk_stats.pages_analyzed + 1
                    ELSE lk_stats.pages_analyzed,
                 revisions |->
                    IF yields /\ new_revision THEN lk_stats.revisions + 1
                    ELSE lk_stats.revisions,
                 links |-> IF yields THEN lk_stats.links + 1
                           ELSE lk_stats.links]
    /\ UNCHANGED <<pages_in_snapshot, pagetitles_in_snapshot,
                   revisions_in_snapshot>>
    /\ UNCHANGED <<lines_vars, pages_vars, main_vars, writer_vars,
                   compare_vars, filter_vars, dumps_vars, redirects_vars, resolve_vars>>

SpecLink == InitLink /\ [][LinkRead]_vars

\* ------------------------------------------- filter_field.process_lines
\* A row is a record of its page id, its revision id and the values of the
\* two columns that may be filtered.  A compiled pattern is the set of the
\* values it matches; a replacement (pattern.sub(repl, .)) is a function on
\* values.

\* Rows of one input.
MaxRows == 2

\* Page ids of the two dumps compared by process_dumps are 1..MaxId.
MaxId == 4

FilterColumns == {"x", "y"}

FieldValues == {"a", "b"}

FilterRows ==
    [page_id : PageIds, revision_id : 1..2, x : FieldValues, y : FieldValues]

Patterns == {{"a"}, {"b"}}

\* One replacement: each value rewritten into the other.
Replacements == {[v \in FieldValues |-> IF v = "a" THEN "b" ELSE "a"]}

\* The lists of one to two patterns.
PatternLists == UNION {[1..n -> Patterns] : n \in 1..2}

\* filter_regexes: its items (field, re_filters) in the order of the dict.
FilterDicts ==
    {<<[field |-> f, re_filters |-> l]>> :
        f \in FilterColumns, l \in PatternLists}
    \cup UNION {{<<[field |-> f, re_filters |-> l],
                     [field |-> g, re_filters |-> m]>> :
                        g \in FilterColumns \ {f},
                        l \in PatternLists, m \in PatternLists} :
                    f \in FilterColumns}

\* replace_regexes: for some of the columns, a list of replacements.
ReplaceDicts ==
    UNION {[S -> {<<>>} \cup {<<r>> : r \in Replacements}] :
              S \in SUBSET FilterColumns}

\* Python's None for a row.
NoRow == [page_id |-> 0, revision_id |-> 0, x |-> "None", y |-> "None"]

\* Lines 96-109: the value of a column after its replacements, in order.
RECURSIVE Replaced(_, _)
Replaced(value, re_replaces) ==
    IF re_replaces = <<>> THEN value
    ELSE Replaced(re_replaces[1][value],
                  SubSeq(re_replaces, 2, Len(re_replaces)))

field_data(row) ==
    [f \in DOMAIN replace_regexes |-> Replaced(row[f], replace_regexes[f])]

\* Lines 119-124: the inner loop leaves select_line False at the first
\* pattern that does not match.
FieldSelects(re_filters, value) ==
    \A n \in 1..Len(re_filters) : value \in re_filters[n]

\* Lines 115-124: select_line is set again to True for each field, so its
\* value after the loops is that of the last field.
select_line(row) ==
    FieldSelects(filter_regexes[Len(filter_regexes)].re_filters,
                 field_data(row)[filter_regexes[Len(filter_regexes)].field])

\* Line 121: field_data[field] raises KeyError for a field that has no entry
\* in replace_regexes.
RaisesKeyError ==
    \E n \in 1..Len(filter_regexes) :
        filter_regexes[n].field \notin DOMAIN replace_regexes

InitFilter ==
    /\ filter_regexes \in FilterDicts
    /\ replace_regexes \in ReplaceDicts
    /\ FilterStart
    /\ ft_pc = "loop"
    /\ LinesIdle
    /\ PagesIdle
    /\ MainIdle
    /\ WriterIdle
    /\ CompareIdle
    /\ LinkIdle
    /\ DumpsIdle
    /\ RedirectsIdle
    /\ ResolveIdle

\* Lines 71-146: one iteration of "while True".  linkline is what
\* next(dump, None) returns.
FilterRead ==
    /\ ft_pc = "loop"
    /\ \E linkline \in (IF Len(ft_dump) < MaxRows THEN FilterRows ELSE {})
                           \cup {NoRow} :
        IF linkline = NoRow
        THEN /\ ft_pc' = "done"
             /\ UNCHANGED <<ft_dump, prevpage_id, prevpage_rev_id, ft_stats,
                            ft_yielded>>
        ELSE
        LET counted ==
              [ft_stats EXCEPT
                 !.pages_analyzed =
                    IF prevpage_id # linkline.page_id THEN @ + 1 ELSE @,
                 !.revisions_analyzed =
                    IF prevpage_rev_id # linkline.revision_id THEN @ + 1
                    ELSE @]
        IN /\ ft_dump' = Append(ft_dump, linkline)
           /\ IF RaisesKeyError
              THEN /\ ft_pc' = "error"
                   /\ ft_stats' = counted
                   /\ UNCHANGED <<prevpage_id, prevpage_rev_id, ft_yielded>>
              ELSE /\ ft_pc' = "loop"
                   /\ ft_yielded' = IF select_line(linkline)
                                    THEN Append(ft_yielded, linkline)
                                    ELSE ft_yielded
                   /\ ft_stats' =
                        IF select_line(linkline)
                        THEN [counted EXCEPT !.lines = @ + 1] ELSE counted
                   /\ prevpage_id' = linkline.page_id
                   /\ prevpage_rev_id' = linkline.revision_id
    /\ UNCHANGED <<filter_regexes, replace_regexes>>
    /\ UNCHANGED <<lines_vars, pages_vars, main_vars, writer_vars, compare_vars,
                   link_vars, dumps_vars, redirects_vars, resolve_vars>>

SpecFilter == InitFilter /\ [][FilterRead]_vars

\* ------------------------------------ extraction_comparator.process_dumps
\* The groups of a dump sorted by ascending page id, as their page ids.
PageIdLists ==
    {s \in UNION {[1..n -> 1..MaxId] : n \in 1..MaxId} :
        \A a \in 1..(Len(s) - 1) : s[a] < s[a + 1]}

\* Lines 198-340: the k-th value process_pages yields for a dump of the
\* groups ids (0 stands for None).  A group is yielded when the first line of
\* the next one is read; at the end of the dump the generator yields None and
\* then the last group, and at every later request None and then the last
\* line again.
Yielded(ids, k) ==
    IF k < Len(ids) THEN ids[k]
    ELSE IF (k - Len(ids)) % 2 = 0 THEN 0
    ELSE ids[Len(ids)]

\* Lines 145-147: peek_generator takes the next value and chains it back in
\* front of the generator, so the position does not move.
peek_generator(ids, g) == Yielded(ids, g + 1)

InitDumps ==
    /\ LinesIdle
    /\ PagesIdle
    /\ MainIdle
    /\ WriterIdle
    /\ CompareIdle
    /\ LinkIdle
    /\ FilterIdle
    /\ RedirectsIdle
    /\ ResolveIdle
    /\ old_ids \in PageIdLists
    /\ new_ids \in PageIdLists
    /\ DumpsStart
    /\ pd_pc = "loop"

\* Lines 653-729: one iteration of "while True".  Subscripting None at line
\* 661 or 667 raises TypeError.
DumpsLoop ==
    /\ pd_pc = "loop"
    /\ IF pd_break_flag
       THEN /\ pd_pc' = "done"
            /\ UNCHANGED <<old_generator, new_generator, oldpagehist,
                           newpagehist, read_old, read_new, pd_break_flag,
                           compare_calls>>
       ELSE LET og == IF read_old THEN old_generator + 1 ELSE old_generator
                oh == IF read_old THEN Yielded(old_ids, og) ELSE oldpagehist
                reads_new == read_new /\ oh # 0
                ng == IF reads_new THEN new_generator + 1 ELSE new_generator
                nh == IF reads_new THEN Yielded(new_ids, ng) ELSE newpagehist
            IN  /\ old_generator' = og
                /\ oldpagehist' = oh
                /\ new_generator' = ng
                /\ newpagehist' = nh
                /\ IF oh = 0 \/ nh = 0
                   THEN /\ pd_pc' = "error"
                        /\ UNCHANGED <<read_old, read_new, pd_break_flag,
                                       compare_calls>>
                   ELSE /\ compare_calls' =
                            IF oh = nh THEN Append(compare_calls, <<oh, nh>>)
                            ELSE compare_calls
                        /\ read_old' =
                            (oh <= nh /\ peek_generator(old_ids, og) # 0)
                        /\ read_new' =
                            (oh >= nh /\ peek_generator(new_ids, ng) # 0)
                        /\ pd_break_flag' = (~read_old' /\ ~read_new')
                        /\ pd_pc' = "loop"
    /\ UNCHANGED <<old_ids, new_ids>>
    /\ UNCHANGED <<lines_vars, pages_vars, main_vars, writer_vars,
                   compare_vars, link_vars, filter_vars, redirects_vars, resolve_vars>>

SpecDumps == InitDumps /\ [][DumpsLoop]_vars

\* ---------------------------------------- redirect_resolver.read_redirects
\* Lines 135-145: a redirect file whose rows are grouped by page and in
\* ascending order of timestamp within a page.  The revision id of a row is
\* its position in the file, so no two rows are equal.
RedirectFiles ==
    {[k \in 1..Len(f) |-> [page_id |-> f[k][1], revision_id |-> k,
                           revision_timestamp |-> f[k][2]]] :
        f \in {g \in UNION {[1..n -> (1..MaxPage) \X (1..MaxT)] :
                                n \in 1..MaxLen} :
                 /\ \A a, b, c \in 1..Len(g) :
                       (a < b /\ b < c /\ g[a][1] = g[c][1])
                           => g[b][1] = g[a][1]
                 /\ \A a \in 1..(Len(g) - 1) :
                       g[a][1] = g[a + 1][1] => g[a][2] <= g[a + 1][2]}}

InitRedirects ==
    /\ LinesIdle
    /\ PagesIdle
    /\ MainIdle
    /\ WriterIdle
    /\ CompareIdle
    /\ LinkIdle
    /\ FilterIdle
    /\ DumpsIdle
    /\ ResolveIdle
    /\ redirects \in RedirectFiles
    /\ snapshot_date \in 1..MaxT
    /\ RedirectsStart
    /\ rr_pc = "loop"

\* Lines 118-172: one iteration of the for loop, or its end.  The reader
\* never gives None, so line 123 is never true and is_last_revision stays
\* False.  Subscripting redirect_prevline when it is None raises the
\* TypeError that line 164 catches.
ReadRedirect ==
    /\ rr_pc = "loop"
    /\ IF redirects_read = Len(redirects)
       THEN /\ rr_pc' = "done"
            /\ UNCHANGED <<redirects_read, redirect_prevline,
                           redirects_history>>
       ELSE LET redirect_line == redirects[redirects_read + 1]
                red_dict == redirect_prevline
            IN  /\ redirects_read' = redirects_read + 1
                /\ rr_pc' = "loop"
                /\ IF redirect_line.revision_timestamp > snapshot_date
                   THEN /\ redirects_history' =
                            IF red_dict = None THEN redirects_history
                            ELSE [p \in DOMAIN redirects_history
                                         \cup {red_dict.page_id} |->
                                    IF p = red_dict.page_id THEN red_dict
                                    ELSE redirects_history[p]]
                        /\ UNCHANGED redirect_prevline
                   ELSE /\ redirect_prevline' = redirect_line
                        /\ UNCHANGED redirects_history
    /\ UNCHANGED <<redirects, snapshot_date>>
    /\ UNCHANGED <<lines_vars, pages_vars, main_vars, writer_vars,
                   compare_vars, link_vars, filter_vars, dumps_vars, resolve_vars>>

SpecRedirects == InitRedirects /\ [][ReadRedirect]_vars

\* ----------------------------------------- redirect_resolver.process_lines
\* The titles of the pages of the snapshot, by page id, and the same titles
\* as a redirect may spell them.
PageTitles == <<"A", "B", "C", "D">>

Unnormalized == <<"a", "b", "c", "d">>

\* Lines 198-204: the first letter is made upper case (there is no
\* underscore in these titles).
normalize_title(title) ==
    IF \E p \in 1..Len(Unnormalized) : title = Unnormalized[p]
    THEN PageTitles[CHOOSE p \in 1..Len(Unnormalized) :
                       title = Unnormalized[p]]
    ELSE title

\* Lines 175-195: read_snapshot_pages maps the title of every row of the
\* snapshot to its page id.
SnapshotTitle2Id ==
    [t \in {PageTitles[p] : p \in 1..MaxPage} |->
        CHOOSE p \in 1..MaxPage : PageTitles[p] = t]

\* The row of page p in the snapshot.
SnapshotPage(p) ==
    [page_id |-> p, page_title |-> PageTitles[p], revision_id |-> 10 + p]

\* The targets a redirect may have: a page of the snapshot, spelled as in the
\* snapshot or not, a page that is not in the snapshot, and the mark of line
\* 232.
RedirectTargets ==
    {PageTitles[p] : p \in 1..MaxPage}
        \cup {Unnormalized[p] : p \in 1..MaxPage}
        \cup {"Z", "#NOREDIRECT"}

\* The tables read_redirects may return: some pages with a target each (and
\* the revision of the redirect, lines 153-163).
RedirectTables ==
    {[p \in DOMAIN f |-> [target |-> f[p], revision_id |-> 100 + p]] :
        f \in UNION {[S -> RedirectTargets] : S \in SUBSET (1..MaxPage)}}

\* Line 239.
DanglingRedirect ==
    [page_id |-> -1, page_title |-> "#DANGLINGREDIRECT", revision_id |-> -1]

InitResolve ==
    /\ LinesIdle
    /\ PagesIdle
    /\ MainIdle
    /\ WriterIdle
    /\ CompareIdle
    /\ LinkIdle
    /\ FilterIdle
    /\ DumpsIdle
    /\ RedirectsIdle
    /\ snapshot_title2id = SnapshotTitle2Id
    /\ rs_redirects_history \in RedirectTables
    /\ rs_dump = [p \in 1..MaxPage |-> SnapshotPage(p)]
    /\ rs_counter = 1
    /\ rs_page = rs_dump[1]
    /\ count_recursive_calls = 0
    /\ rs_result = NoResult
    /\ rs_stats = [redirects_analyzed |-> 0, pages_analyzed |-> 0]
    /\ rs_yielded = <<>>
    /\ rs_pc = "call"

\* Lines 207-277: one call of resolve_redirect.  A nested call returns its
\* result unchanged through the calls around it (lines 261-267 and 277), so
\* a return is a return to process_lines.  At line 269 ipdb is imported: the
\* import raises when ipdb is not installed, and when it is installed and
\* the debugger is left the call returns result, which is still None.
ResolveRedirect ==
    /\ rs_pc = "call"
    /\ count_recursive_calls' = count_recursive_calls + 1
    /\ rs_stats' = [rs_stats EXCEPT
                        !.redirects_analyzed = rs_stats.redirects_analyzed + 1]
    /\ LET page_id == rs_page.page_id
           is_redirect == page_id \in DOMAIN rs_redirects_history
           redirect == rs_redirects_history[page_id]
           target_title == normalize_title(redirect.target)
           target_id == IF target_title \in DOMAIN snapshot_title2id
                        THEN snapshot_title2id[target_title]
                        ELSE 0
           target_page == [page_id |-> target_id,
                           page_title |-> target_title,
                           revision_id |-> redirect.revision_id]
       IN  IF ~is_redirect
           THEN /\ rs_result' = rs_page
                /\ rs_pc' = "returned"
                /\ UNCHANGED rs_page
           ELSE IF page_id = target_id \/ target_title = "#NOREDIRECT"
           THEN /\ rs_result' = rs_page
                /\ rs_pc' = "returned"
                /\ UNCHANGED rs_page
           ELSE IF target_id = 0
           THEN /\ rs_result' = DanglingRedirect
                /\ rs_pc' = "returned"
                /\ UNCHANGED rs_page
           ELSE IF count_recursive_calls' <= MAX_RECURSION
           THEN /\ rs_page' = target_page
                /\ rs_pc' = "call"
                /\ UNCHANGED rs_result
           ELSE /\ rs_result' = NoResult
                /\ rs_pc' \in {"returned", "error"}
                /\ UNCHANGED rs_page
    /\ UNCHANGED <<snapshot_title2id, rs_redirects_history, rs_dump,
                   rs_counter, rs_yielded>>
    /\ UNCHANGED <<lines_vars, pages_vars, main_vars, writer_vars,
                   compare_vars, link_vars, filter_vars, dumps_vars,
                   redirects_vars>>

\* Lines 296-311: the rest of an iteration of the for loop once
\* resolve_redirect has returned, and the start of the next one.  Adding None
\* to a list raises TypeError at line 311.
YieldResolved ==
    /\ rs_pc = "returned"
    /\ IF rs_result = NoResult
       THEN /\ rs_pc' = "error"
            /\ rs_stats' = [rs_stats EXCEPT
                                !.pages_analyzed = rs_stats.pages_analyzed + 1]
            /\ UNCHANGED <<rs_counter, rs_page, count_recursive_calls,
                           rs_yielded>>
       ELSE /\ rs_stats' = [rs_stats EXCEPT
                                !.pages_analyzed = rs_stats.pages_analyzed + 1]
            /\ rs_yielded' = Append(rs_yielded,
                                    <<rs_dump[rs_counter], rs_result>>)
            /\ IF rs_counter < Len(rs_dump)
               THEN /\ rs_counter' = rs_counter + 1
                    /\ rs_page' = rs_dump[rs_counter + 1]
                    /\ count_recursive_calls' = 0
                    /\ rs_pc' = "call"
               ELSE /\ rs_pc' = "done"
                    /\ UNCHANGED <<rs_counter, rs_page,
                                   count_recursive_calls>>
    /\ UNCHANGED <<snapshot_title2id, rs_redirects_history, rs_dump,
                   rs_result>>
    /\ UNCHANGED <<lines_vars, pages_vars, main_vars, writer_vars,
                   compare_vars, link_vars, filter_vars, dumps_vars,
                   redirects_vars>>

NextResolve ==
    \/ ResolveRedirect
    \/ YieldResolved

SpecResolve == InitResolve /\ [][NextResolve]_vars

\* ------------------------------------------------------------ the yields
\* Lines 241-315 run to the end on one group: the pairs the sweep yields for
\* revs against tss, in order.  Once i has passed the last timestamp nothing
\* more is yielded.
RECURSIVE SweepRun(_, _, _, _)
SweepRun(st, at, revs, tss) ==
    IF st.i >= Len(tss) THEN <<>>
    ELSE IF at = "outer"
         THEN IF st.j < Len(revs)
              THEN SweepRun(OuterBody(st, revs), "inner", revs, tss)
              ELSE <<>>
         ELSE LET r == InnerBody(st, revs, tss)
              IN r.out \o SweepRun(r.st, IF r.brk THEN "outer" ELSE "inner", revs, tss)

\* Lines 241-315 run on one group: the local state when the sweep stops.
\* It stops when the outer loop finds j >= len(sorted_revisions); when the
\* timestamps run out before that, the outer loop goes round for ever with
\* the state returned here, where j < len(sorted_revisions).
RECURSIVE SweepEnd(_, _, _, _)
SweepEnd(st, at, revs, tss) ==
    IF at = "outer"
    THEN IF st.j >= Len(revs) \/ st.i >= Len(tss) THEN st
         ELSE SweepEnd(OuterBody(st, revs), "inner", revs, tss)
    ELSE IF st.i >= Len(tss) THEN SweepEnd(st, "outer", revs, tss)
         ELSE LET r == InnerBody(st, revs, tss)
              IN SweepEnd(r.st, IF r.brk THEN "outer" ELSE "inner", revs, tss)

\* The pairs yielded for the rows of the group being swept (revision ids
\* are unique, so a row names its group).
InGroup(p) == p.page \in Range(sorted_revisions)

GroupPairs == SelectSeq(emitted, InGroup)

\* The sweep of the current group has used up the timestamps.
SweepOver == pc = "outer" /\ i >= Len(timestamps)

\* The revisions of the current group that exist at instant ts.
Born(ts) == {r \in Range(sorted_revisions) : r.timestamp <= ts}

\* The positions in gp of the pairs for instant ts.
PairsAt(gp, ts) == {m \in 1..Len(gp) : gp[m].ts = ts}

\* The position of row r in the input.
Arrival(r) == CHOOSE k \in 1..Len(dump) : dump[k] = r

\* The rows of page id p are contiguous in the input read so far.
Contiguous(p) ==
    \A a, b, c \in 1..Len(dump) :
        (a < b /\ b < c /\ dump[a].page_id = p /\ dump[c].page_id = p)
            => dump[b].page_id = p

\* The maximal runs of rows with the same page id, in order.
RECURSIVE Runs(_)
Runs(s) ==
    IF s = <<>> THEN <<>>
    ELSE IF Len(s) = 1 THEN <<s>>
    ELSE LET front == Runs(SubSeq(s, 1, Len(s) - 1))
             x == s[Len(s)]
         IN IF s[Len(s) - 1].page_id = x.page_id
            THEN [front EXCEPT ![Len(front)] = Append(@, x)]
            ELSE Append(front, <<x>>)

SameRows(g, h) == Len(g) = Len(h) /\ Range(g) = Range(h)

\* The rows of a set with pairwise distinct timestamps, in ascending order.
RECURSIVE AscendingRows(_)
AscendingRows(S) ==
    IF S = {} THEN <<>>
    ELSE LET r == CHOOSE x \in S : \A y \in S : x.timestamp <= y.timestamp
         IN <<r>> \o AscendingRows(S \ {r})

DistinctTimestamps(S) ==
    \A x, y \in S : x.timestamp = y.timestamp => x = y

\* ------------------------------------------------------------------ claims

\* C1: when the sweep of a group has used up the (strictly increasing)
\* timestamps, every timestamp ts that is not earlier than the group's
\* earliest revision has exactly one pair, and the pair's revision is one of
\* the group with the greatest timestamp <= ts.
C1_Coverage ==
    SweepOver =>
        LET gp == GroupPairs
        IN \A k \in 1..Len(timestamps) :
             LET ts == timestamps[k]
                 born == Born(ts)
                 at == PairsAt(gp, ts)
             IN born # {} =>
                  /\ Cardinality(at) = 1
                  /\ \A m \in at :
                       /\ gp[m].page \in born
                       /\ gp[m].page.timestamp =
                              Max({r.timestamp : r \in born})

\* A group of two revisions, the first yielded for one timestamp and the
\* second for a later one, after a timestamp at which the page was absent.
C1_Witness ==
    /\ SweepOver
    /\ Len(sorted_revisions) = 2
    /\ j >= Len(sorted_revisions)
    /\ Len(timestamps) = 3
    /\ Born(timestamps[1]) = {}
    /\ Len(GroupPairs) = 2
    /\ GroupPairs[1].page # GroupPairs[2].page

\* C2: no pair is ever yielded for a group and a timestamp earlier than the
\* group's earliest revision.
C2_NoEmissionBeforeCreation ==
    LET gp == GroupPairs
    IN \A m \in 1..Len(gp) :
         \E r \in Range(sorted_revisions) : r.timestamp <= gp[m].ts

\* The first timestamp is earlier than the page's first revision and was
\* skipped; a later one got its pair.
C2_Witness ==
    /\ pc = "inner"
    /\ Len(timestamps) >= 2
    /\ Born(timestamps[1]) = {}
    /\ Len(GroupPairs) >= 1
    /\ i >= 2

\* C3: for a page whose rows are contiguous in the input, at most one pair
\* is yielded for the page and a timestamp: two pairs with the same page id
\* and timestamp occur only for a page id whose rows are not contiguous.
C3_AtMostOnePerSlot ==
    \A a, b \in 1..Len(emitted) :
        (/\ a < b
         /\ emitted[a].page.page_id = emitted[b].page.page_id
         /\ emitted[a].ts = emitted[b].ts)
            => ~Contiguous(emitted[a].page.page_id)

\* A page of two revisions, both existing at the last timestamp, followed by
\* another page; the run is over.
C3_Witness ==
    /\ pc = "done"
    /\ Len(dump) = 3
    /\ dump[1].page_id = dump[2].page_id
    /\ dump[3].page_id # dump[1].page_id
    /\ dump[1].timestamp # dump[2].timestamp
    /\ Len(timestamps) = 2
    /\ dump[1].timestamp <= timestamps[1]
    /\ dump[2].timestamp <= timestamps[2]
    /\ Len(emitted) >= 3

\* C4: the timestamps of the pairs yielded for a page never decrease in the
\* order of the yields: a pair followed by one of the same page id with an
\* earlier timestamp occurs only for a page id whose rows are not contiguous
\* in the input, and never within the group being swept.
C4_Monotonic ==
    \A a, b \in 1..Len(emitted) :
        (/\ a < b
         /\ emitted[a].page.page_id = emitted[b].page.page_id
         /\ emitted[a].ts > emitted[b].ts)
            => /\ ~Contiguous(emitted[a].page.page_id)
               /\ ~(InGroup(emitted[a]) /\ InGroup(emitted[b]))

\* A page of two revisions has pairs at three timestamps.
C4_Witness ==
    /\ SweepOver
    /\ Len(sorted_revisions) = 2
    /\ Contiguous(sorted_revisions[1].page_id)
    /\ Len(GroupPairs) = 3
    /\ GroupPairs[1].page # GroupPairs[3].page

\* C5: once cursor i has passed the last timestamp the sweep of the group
\* is over, whatever j: the outer loop does not start another iteration.
C5_SweepTerminates ==
    [][(pc = "outer" /\ i >= Len(timestamps)) => pc' # "inner"]_vars

\* C6: the groups handed to the sweep, followed by the open group while the
\* input lasts, are exactly the maximal runs of rows of one page id, each
\* with the rows of its run, once each.
C6_GroupsAreRuns ==
    LET got == IF is_last_revision THEN groups
               ELSE Append(groups, page_revisions)
        runs == Runs(dump)
    IN (dump # <<>> /\ pc # "error") =>
          /\ Len(got) = Len(runs)
          /\ \A k \in 1..Len(got) : SameRows(got[k], runs[k])

\* The input is over: three rows were read, the last of them starting a new
\* page, and two groups were handed to the sweep.
C6_Witness ==
    /\ pc = "done"
    /\ Len(dump) = 3
    /\ dump[3].page_id # dump[2].page_id
    /\ Len(groups) = 2
    /\ Len(groups[1]) = 2

\* C7: for a group whose revisions have pairwise distinct timestamps, the
\* pairs yielded are those of the same rows fed in ascending order of
\* timestamp, whatever the order in which they arrived.
C7_OrderInsensitive ==
    (SweepOver /\ DistinctTimestamps(Range(sorted_revisions))) =>
        GroupPairs = SweepRun(SweepInit, "outer",
                              sorted(AscendingRows(Range(sorted_revisions))),
                              timestamps)

\* Two revisions arrived in descending order of timestamp and both were
\* yielded.
C7_Witness ==
    /\ SweepOver
    /\ Len(sorted_revisions) = 2
    /\ Arrival(sorted_revisions[2]) < Arrival(sorted_revisions[1])
    /\ sorted_revisions[1].timestamp < sorted_revisions[2].timestamp
    /\ Len(GroupPairs) = 2
    /\ GroupPairs[1].page # GroupPairs[2].page

\* C8: with only_last_revision the revision of every pair yielded for a
\* group is the one with the greatest timestamp of the group.
C8_OnlyLastRevision ==
    only_last_revision =>
        LET gp == GroupPairs
        IN \A m \in 1..Len(gp) :
             \A r \in Range(sorted_revisions) :
                 r.timestamp <= gp[m].page.timestamp

\* C9: a revision whose timestamp equals a snapshot timestamp T is current
\* at T: the pair yielded for T carries a revision dated T.
C9_InclusiveBoundary ==
    SweepOver =>
        LET gp == GroupPairs
        IN \A k \in 1..Len(timestamps) :
             (\E r \in Range(sorted_revisions) : r.timestamp = timestamps[k]) =>
                 \E m \in PairsAt(gp, timestamps[k]) :
                     gp[m].page.timestamp = timestamps[k]

\* Both kinds at once: the first revision of the group is dated at the first
\* timestamp and the second one, which supersedes it, at the second.
C9_Witness ==
    /\ SweepOver
    /\ Len(sorted_revisions) = 2
    /\ Len(timestamps) = 2
    /\ sorted_revisions[1].timestamp = timestamps[1]
    /\ sorted_revisions[2].timestamp = timestamps[2]
    /\ Len(GroupPairs) = 2

\* C10: revisions of a group with the same timestamp are swept in the order
\* of their arrival, and at the timestamps where they are the latest
\* revisions the pair carries the one that arrived last.
C10_TiesByArrival ==
    /\ \A a, b \in 1..Len(sorted_revisions) :
         (a < b /\ sorted_revisions[a].timestamp = sorted_revisions[b].timestamp)
             => Arrival(sorted_revisions[a]) < Arrival(sorted_revisions[b])
    /\ SweepOver =>
         LET gp == GroupPairs
         IN \A m \in 1..Len(gp) :
              \A r \in Range(sorted_revisions) :
                  r.timestamp = gp[m].page.timestamp
                      => Arrival(r) <= Arrival(gp[m].page)

\* Two revisions with the same timestamp, whose ids descend, and a pair.
C10_Witness ==
    /\ SweepOver
    /\ Len(sorted_revisions) >= 2
    /\ sorted_revisions[1].timestamp = sorted_revisions[2].timestamp
    /\ sorted_revisions[1].revision_id > sorted_revisions[2].revision_id
    /\ Len(GroupPairs) >= 1
    /\ GroupPairs[1].page.timestamp = sorted_revisions[1].timestamp

\* C11 (as stated): among the revisions of the group handed to the sweep
\* that have the same timestamp, the revision ids ascend, whatever the order
\* in which the rows arrived.
C11_TiesByRevisionId ==
    \A a, b \in 1..Len(sorted_revisions) :
        (a < b /\ sorted_revisions[a].timestamp = sorted_revisions[b].timestamp)
            => sorted_revisions[a].revision_id < sorted_revisions[b].revision_id

\* C11 (amended): the group handed to the sweep is sorted by timestamp
\* alone; revisions with the same timestamp keep the order of their arrival,
\* whatever their revision ids.
C11_SortedByTimestampOnly ==
    \A a, b \in 1..Len(sorted_revisions) :
        a < b =>
            /\ sorted_revisions[a].timestamp <= sorted_revisions[b].timestamp
            /\ sorted_revisions[a].timestamp = sorted_revisions[b].timestamp
                   => Arrival(sorted_revisions[a]) < Arrival(sorted_revisions[b])

\* A group of three was flushed: the row that arrived first has the latest
\* timestamp and went last; the other two tie, and their ids descend.
C11_Witness ==
    /\ pc = "outer"
    /\ Len(sorted_revisions) = 3
    /\ Arrival(sorted_revisions[3]) = 1
    /\ sorted_revisions[1].timestamp = sorted_revisions[2].timestamp
    /\ sorted_revisions[2].timestamp < sorted_revisions[3].timestamp
    /\ sorted_revisions[1].revision_id > sorted_revisions[2].revision_id

\* The timestamp list is empty, or every timestamp is earlier than the first
\* revision of the group being swept.
OutOfRange ==
    /\ sorted_revisions # <<>>
    /\ \A k \in 1..Len(timestamps) : Born(timestamps[k]) = {}

\* C12: for a group that is out of range of the timestamps the sweep yields
\* no pair and completes: once cursor i has passed the last timestamp (at
\* once, when the list is empty) control goes back to the reader.
C12_OutOfRangeCompletes ==
    [][(pc = "outer" /\ OutOfRange /\ i >= Len(timestamps))
          => (pc' = "read" /\ emitted' = emitted)]_vars

\* C13: when the iterator yields no revision row at all, process_lines
\* yields no pair and ends normally: it does not fail.
C13_EmptyInputCompletes ==
    (dump = <<>> /\ is_last_revision) => (emitted = <<>> /\ pc # "error")

\* The number of the page group (maximal run of one page id) of row r, in
\* the order of the input.
RunIndex(r) ==
    1 + Cardinality({k \in 2..Arrival(r) : dump[k].page_id # dump[k - 1].page_id})

\* C14: the pairs are yielded in the order in which the page groups arrive:
\* no pair of a later group precedes a pair of an earlier one, and no pair
\* of the last group read is yielded while the input lasts.
C14_PageArrivalOrder ==
    /\ \A a, b \in 1..Len(emitted) :
          a < b => RunIndex(emitted[a].page) <= RunIndex(emitted[b].page)
    /\ ~is_last_revision =>
          \A m \in 1..Len(emitted) :
              RunIndex(emitted[m].page) < RunIndex(dump[Len(dump)])

\* Two groups, the second with the earlier revision; the run is over and
\* both have pairs.
C14_Witness ==
    /\ pc = "done"
    /\ Len(groups) = 2
    /\ groups[2][1].timestamp < groups[1][1].timestamp
    /\ Len(emitted) >= 2
    /\ RunIndex(emitted[1].page) = 1
    /\ RunIndex(emitted[Len(emitted)].page) = 2

\* C15: the open group holds rows of one page id only, the id of the row
\* read last; and when a group has been flushed (the sweep is running) the
\* open group is exactly the row that triggered the flush.
C15_OpenGroupSinglePage ==
    /\ \A k \in 1..Len(page_revisions) :
          page_revisions[k].page_id = revision.page_id
    /\ pc \in {"outer", "inner"} => page_revisions = <<revision>>

\* A group of two rows has just been flushed by a row of another page, with
\* input still to come.
C15_Witness ==
    /\ pc = "outer"
    /\ ~is_last_revision
    /\ Len(sorted_revisions) = 2
    /\ page_revisions = <<revision>>
    /\ revision.page_id # sorted_revisions[1].page_id

\* C16: on a timestamp list that is not strictly increasing process_lines
\* fails at setup: it never yields a pair and never starts a sweep.
C16_UnorderedRejected ==
    ~StrictlyIncreasing(timestamps) =>
        (emitted = <<>> /\ pc \notin {"outer", "inner", "done"})

\* The records of the groups process_pages has yielded and of its open
\* group.
PagesRecords ==
    UNION {Range(yielded[k].group) : k \in 1..Len(yielded)} \cup Range(revisions)

\* C17: no record of a group stands for a row whose page id or revision
\* timestamp could not be parsed: the page id and the timestamp of every
\* record are the ones its row states.
C17_NoSubstituteValues ==
    \A rec \in PagesRecords :
        /\ ParsesAsPageId(rec.page.data.page_id)
        /\ ParsesAsTimestamp(rec.page.data.revision_timestamp)

\* C18: once the input is exhausted and the group of the last page has been
\* yielded, process_pages yields nothing more.
C18_NothingAfterLastGroup ==
    [][(exhausted /\ yielded # <<>> /\ yielded[Len(yielded)].kind = "group")
          => yielded' = yielded]_vars

\* The pairs that the sweeps of the page groups of an input yield, one group
\* after the other: a function of the rows and of the timestamps alone.
RECURSIVE PairsOfRuns(_, _)
PairsOfRuns(runs, tss) ==
    IF runs = <<>> THEN <<>>
    ELSE PairsOfRuns(SubSeq(runs, 1, Len(runs) - 1), tss)
         \o SweepRun(SweepInit, "outer", sorted(runs[Len(runs)]), tss)

\* C19: the pairs yielded are a function of the rows read and of the
\* timestamp list: whenever a sweep has used up the timestamps, and when the
\* run is over, the pairs yielded so far are, in order, those of the page
\* groups flushed so far, so that two runs on the same rows and timestamps
\* yield the same pairs in the same order.
C19_Deterministic ==
    (SweepOver \/ pc = "done") =>
        emitted = PairsOfRuns(SubSeq(Runs(dump), 1, Len(groups)), timestamps)

\* The run is over: two groups, the second of two revisions that arrived in
\* descending order of timestamp, and four pairs or more.
C19_Witness ==
    /\ pc = "done"
    /\ Len(groups) = 2
    /\ Len(dump) = 3
    /\ dump[2].page_id = dump[3].page_id
    /\ dump[2].timestamp > dump[3].timestamp
    /\ Len(emitted) >= 4

\* C20: the list main builds is strictly increasing, starts at
\* WIKIEPOCH, its k-th element is WIKIEPOCH moved by k periods, and no such
\* instant up to endtime is missing.  (The instants ascend with k, so the
\* first one past the end of the list decides.)
C20_EveryInstantToBound ==
    main_pc = "built" =>
        /\ StrictlyIncreasing(timestamps)
        /\ timestamps # <<>> /\ timestamps[1] = WIKIEPOCH
        /\ \A m \in 1..Len(timestamps) :
              timestamps[m] = Instant(periodicity, m - 1)
        /\ \A k \in 0..Len(timestamps) :
              Instant(periodicity, k) <= endtime
                  => \E m \in 1..Len(timestamps) :
                        timestamps[m] = Instant(periodicity, k)

\* The records of the groups process_pages has yielded.
YieldedRecords ==
    UNION {Range(yielded[k].group) : k \in 1..Len(yielded)}

\* C21: no group that process_pages yields contains a revision dated after
\* max_timestamp, be it the first row of its page or a later one.
C21_MaxTimestamp ==
    \A rec \in YieldedRecords : rec.page.timestamp <= max_timestamp

\* The first difflist with an entry, among those main has pulled.
FirstDiffPage ==
    Min({n \in 1..Len(difflists) : difflists[n] # <<>>})

\* C22: with --exit-on-diff, a run of main that has met a difference ends
\* having written every entry of the first page with a difference, in order,
\* and nothing else, and having asked for no page after it.
C22_ExitOnDiff ==
    (/\ exit_on_diff
     /\ cmp_pc \in {"done", "error"}
     /\ \E n \in 1..Len(difflists) : difflists[n] # <<>>)
    => /\ Len(difflists) = FirstDiffPage
       /\ written = [k \in 1..Len(difflists[FirstDiffPage]) |->
                        Row(FirstDiffPage, difflists[FirstDiffPage][k])]

\* The columns the rows are stated equal on: those of both rows, or with
\* all_columns those of either, less the excluded ones.
Excluded == IF exclude_columns = NoColumns THEN {} ELSE exclude_columns

Compared ==
    (IF all_columns THEN DOMAIN old_data \cup DOMAIN new_data
     ELSE DOMAIN old_data \cap DOMAIN new_data) \ Excluded

\* Both rows have column c and the same field in it.
Agree(c) ==
    /\ c \in DOMAIN old_data
    /\ c \in DOMAIN new_data
    /\ old_data[c] = new_data[c]

\* C23: compare_data returns true exactly when the rows agree on every
\* compared column; rows that agree on every column that is not excluded
\* compare equal; and the answer is the same with old and new swapped.
C23_CompareData ==
    cd_pc = "returned" =>
        /\ are_equal = (\A c \in Compared : Agree(c))
        /\ (\A c \in (DOMAIN old_data \cup DOMAIN new_data) \ Excluded :
                Agree(c)) => are_equal
        /\ are_equal = compare_data(new_data, old_data, exclude_columns,
                                    all_columns)

\* Two rows that differ in an excluded column, and in a column only one of
\* them has, have been compared on their common columns and found equal.
C23_Witness ==
    /\ cd_pc = "returned"
    /\ are_equal
    /\ ~all_columns
    /\ DOMAIN old_data # DOMAIN new_data
    /\ \E c \in exclude_columns \cap DOMAIN old_data \cap DOMAIN new_data :
            old_data[c] # new_data[c]

\* C24: with only_last_revision, process_pages yields the group of a page as
\* exactly one record, the one with the greatest timestamp among the rows of
\* that page it has buffered: sorting and yielding a group does not fail, and
\* every group yielded is such a record.
C24_OnlyLastRevision ==
    pp_only_last_revision =>
        /\ pp_pc = "error" => pp_dump = <<>>
        /\ \A n \in 1..Len(yielded) :
            yielded[n].kind = "group" =>
                /\ Len(yielded[n].group) = 1
                /\ \A k \in 1..Len(pp_dump) :
                    (/\ ParsePageId(pp_dump[k].page_id)
                            = yielded[n].group[1].page.id
                     /\ ParseTimestamp(pp_dump[k].revision_timestamp)
                            <= max_timestamp)
                    => ParseTimestamp(pp_dump[k].revision_timestamp)
                            <= yielded[n].group[1].page.timestamp

\* C25 (as stated): during the sweep of a group the cursors stay in range:
\* 0 <= i <= number of timestamps and 0 <= j <= number of revisions of the
\* group.
C25_CursorsInRange ==
    /\ 0 <= i /\ i <= Len(timestamps)
    /\ 0 <= j /\ j <= Len(sorted_revisions)

\* C25 (amended): 0 <= i <= number of timestamps and 0 <= j; no step of a
\* sweep decreases i or j; j passes the number of revisions only after the
\* last revision of the group was adopted, by one for each further timestamp
\* swept, so that it never exceeds the number of revisions plus i.
C25_CursorsForward ==
    /\ [](/\ 0 <= i /\ i <= Len(timestamps)
          /\ 0 <= j /\ j <= Len(sorted_revisions) + i
          /\ j > Len(sorted_revisions) =>
                prevpage = sorted_revisions[Len(sorted_revisions)])
    /\ [][pc # "read" => (i' >= i /\ j' >= j)]_vars

\* The sweep has gone on after the adoption of the last revision: j is
\* past the end of the group.
C25_Witness ==
    /\ pc = "inner"
    /\ Len(sorted_revisions) = 2
    /\ j > Len(sorted_revisions)
    /\ i = Len(timestamps)

\* C26: the group being sorted and the timestamps strictly increasing, the
\* branch "pt > ts" of line 277 is never taken: whenever the inner loop is
\* about to compare with a previous revision, pt <= ts, also after the last
\* revision was adopted, when pt is the timestamp of an older revision.
C26_PrevNeverNewer ==
    (/\ pc = "inner"
     /\ i < Len(timestamps)
     /\ prevpage # None)
    => pt <= timestamps[i + 1]

\* The last revision of a group of two has been adopted, pt is still the
\* timestamp of the first (or EPOCH), and a timestamp remains to be swept.
C26_Witness ==
    /\ pc = "inner"
    /\ i < Len(timestamps)
    /\ Len(sorted_revisions) = 2
    /\ j >= 2
    /\ prevpage = sorted_revisions[2]
    /\ pt # prevpage.timestamp

\* C27: every group that process_lines sorts and sweeps has at least one
\* revision, whatever the (non-empty) input: a single row, or a last row
\* that starts a new page.
C27_GroupsNonEmpty ==
    /\ \A n \in 1..Len(groups) : groups[n] # <<>>
    /\ pc \in {"outer", "inner"} => sorted_revisions # <<>>

\* The run is over on an input whose last row started a new page: that row
\* was swept as a group of its own.
C27_Witness ==
    /\ pc = "done"
    /\ Len(dump) = 3
    /\ dump[2].page_id = dump[1].page_id
    /\ dump[3].page_id # dump[2].page_id
    /\ groups = <<SubSeq(dump, 1, 2), <<dump[3]>>>>

\* The rows of the input that start a maximal run of rows with one page id.
RunStarts ==
    {k \in 1..Len(dump) : k = 1 \/ dump[k].page_id # dump[k - 1].page_id}

\* C28: pages_analyzed never decreases and is incremented once for each page
\* boundary crossed: after any prefix of the input it is the number of
\* maximal runs of one page id started so far, and reading the last row
\* again at the end of the input does not change it.
C28_PagesAnalyzed ==
    /\ [](pages_analyzed = Cardinality(RunStarts))
    /\ [][pages_analyzed' >= pages_analyzed]_vars

\* The run is over on three rows in two runs: two pages were counted.
C28_Witness ==
    /\ pc = "done"
    /\ Len(dump) = 3
    /\ Cardinality(RunStarts) = 2
    /\ pages_analyzed = 2

\* The revisions of the first n groups, and of the groups whose sweep is
\* over.
RECURSIVE RevisionsOf(_)
RevisionsOf(n) == IF n = 0 THEN 0 ELSE RevisionsOf(n - 1) + Len(groups[n])

RevisionsSwept ==
    IF pc \in {"outer", "inner"} THEN RevisionsOf(Len(groups) - 1)
    ELSE RevisionsOf(Len(groups))

\* C29: revisions_analyzed is incremented once for each revision: the sweep
\* of a group adds to it no more than the number of revisions of the group,
\* exactly that number once the sweep is over, and when the run completes
\* the counter is the number of rows read.
C29_RevisionsAnalyzed ==
    /\ pc \in {"outer", "inner"} =>
          revisions_analyzed <= RevisionsSwept + Len(sorted_revisions)
    /\ pc = "read" => revisions_analyzed = RevisionsSwept
    /\ pc = "done" => revisions_analyzed = Len(dump)

\* A sweep that starts at the first timestamp and the first revision, with
\* no previous revision.
FreshSweep ==
    [i |-> 0, j |-> 0, prevpage |-> None, page |-> None, ct |-> EPOCH, pt |-> EPOCH]

\* The pairs yielded so far for the rows of the n-th group.
PairsOfGroup(n) ==
    LET OfGroup(p) == p.page \in Range(groups[n])
    IN SelectSeq(emitted, OfGroup)

\* C30: the sweep of each group starts with i = 0, j = 0 and no previous
\* revision, and the pairs yielded for a page are those of a sweep of its own
\* group against the timestamps, started afresh: the pages read before it or
\* after it do not change them.
C30_SweepPerPage ==
    /\ [][(pc = "read" /\ pc' = "outer")
            => (i' = 0 /\ j' = 0 /\ prevpage' = None)]_vars
    /\ []((SweepOver \/ pc = "done") =>
            \A n \in 1..Len(groups) :
                PairsOfGroup(n) = SweepRun(FreshSweep, "outer", groups[n],
                                           timestamps))

\* The run is over: the pairs of the first of two groups are followed by
\* pairs of the second, which was swept from the first timestamp again.
C30_Witness ==
    /\ pc = "done"
    /\ Len(groups) = 2
    /\ Len(timestamps) >= 2
    /\ Len(PairsOfGroup(1)) = Len(timestamps)
    /\ Len(PairsOfGroup(2)) = Len(timestamps)

\* C31: no step of process_lines, of the reader or of a sweep, changes the
\* timestamp list.
C31_TimestampsUnchanged ==
    [][timestamps' = timestamps]_vars

\* The run is over after the sweeps of two groups against two timestamps
\* or more, each of which yielded pairs.
C31_Witness ==
    /\ pc = "done"
    /\ Len(groups) = 2
    /\ Len(timestamps) >= 2
    /\ \E a, b \in 1..Len(emitted) :
          emitted[a].page.page_id # emitted[b].page.page_id

\* C32: a line that the csv module rejects is skipped and processing goes
\* on: reading it changes neither the open group, nor the previous-page
\* marker, nor the three counters; the groups are still the maximal runs of
\* one page id of the rows parsed, a rejected line between two rows of a
\* page not splitting them; and the end of the input is followed by the
\* flush of the open group and the end of the run, never by another read.
C32_RejectedSkipped ==
    /\ [][rejects' # rejects =>
            UNCHANGED <<page_revisions, dump_prevpage, pages_analyzed,
                        revisions_analyzed, link_analyzed>>]_vars
    /\ []((pc = "read" /\ is_last_revision) => break_flag)
    /\ []((dump # <<>> /\ pc = "done") =>
            /\ Len(groups) = Len(Runs(dump))
            /\ \A k \in 1..Len(groups) : SameRows(groups[k], Runs(dump)[k]))

\* The lines of the input that are well formed and of the snapshot: both
\* csv.reader accepts them, their page id is in pages_in_snapshot and their
\* revision id in revisions_in_snapshot.
InSnapshot(l) ==
    /\ l.csv_ok
    /\ l.page_id \in pages_in_snapshot
    /\ l.revision_id \in revisions_in_snapshot

\* C33: the lines yielded by link_snapshot_extractor.process_lines are, in
\* input order, exactly the well-formed lines read whose page id is in
\* pages_in_snapshot and whose revision id is in revisions_in_snapshot.
C33_ExactlyTheSnapshotLines ==
    [k \in 1..Len(lk_yielded) |-> lk_yielded[k].line]
        = SelectSeq(lk_dump, InSnapshot)

\* A row is to be selected: every filtered field, after its replacements
\* (none for a field without any), matches one at least of its patterns.
ToSelect(row) ==
    \A n \in 1..Len(filter_regexes) :
        LET f == filter_regexes[n].field
            value == IF f \in DOMAIN replace_regexes
                     THEN Replaced(row[f], replace_regexes[f]) ELSE row[f]
        IN \E m \in 1..Len(filter_regexes[n].re_filters) :
              value \in filter_regexes[n].re_filters[m]

\* C34: filter_field.process_lines yields a row exactly when every filtered
\* field satisfies its condition, a field satisfying it when one at least of
\* its patterns matches its value after replacement: the rows yielded are,
\* in order, those of the rows read that are to be selected.
C34_ConjunctionOfDisjunctions ==
    ft_yielded = SelectSeq(ft_dump, ToSelect)

\* The page ids the two dumps have in common.
CommonPages ==
    {old_ids[a] : a \in 1..Len(old_ids)} \cap {new_ids[b] : b \in 1..Len(new_ids)}

\* C35: when process_dumps has ended, compare_pages has been called exactly
\* once for every page id present in both dumps (the last page of each dump
\* included) and never for two groups with different page ids.
C35_CommonPagesComparedOnce ==
    pd_pc \in {"done", "error"} =>
        /\ \A p \in CommonPages :
              Cardinality({k \in 1..Len(compare_calls) :
                              compare_calls[k] = <<p, p>>}) = 1
        /\ \A k \in 1..Len(compare_calls) :
              compare_calls[k][1] = compare_calls[k][2]

\* The positions of the rows of page p dated at or before snapshot_date.
RowsAtDate(p) ==
    {k \in 1..Len(redirects) :
        /\ redirects[k].page_id = p
        /\ redirects[k].revision_timestamp <= snapshot_date}

\* C36: when read_redirects returns, every page id with a row dated at or
\* before snapshot_date is mapped to the latest such row of that page, and
\* every row stored is stored under its own page id.
C36_LatestRowOfEveryPage ==
    rr_pc = "done" =>
        /\ \A p \in 1..MaxPage :
              RowsAtDate(p) # {} =>
                  /\ p \in DOMAIN redirects_history
                  /\ redirects_history[p] =
                        redirects[CHOOSE k \in RowsAtDate(p) :
                                     \A q \in RowsAtDate(p) : q <= k]
        /\ \A p \in DOMAIN redirects_history :
              redirects_history[p].page_id = p

\* C37: resolve_redirect makes at most MAX_RECURSION + 1 nested calls and
\* returns a page record to process_lines, whatever the redirect table
\* (cycles included), so process_lines ends with one output row for each row
\* of the snapshot.
C37_OneRowPerInputRow ==
    /\ count_recursive_calls <= MAX_RECURSION + 1
    /\ rs_pc # "error"
    /\ rs_pc = "returned" => rs_result # NoResult
    /\ rs_pc = "done" =>
          /\ Len(rs_yielded) = Len(rs_dump)
          /\ \A k \in 1..Len(rs_dump) : rs_yielded[k][1] = rs_dump[k]

\* The last date main was given: line 389 moved it by two days less a
\* second.
GivenLastDate == Shift(Shift(last_date, "seconds", 1), "days", -2)

\* The groups of one page with one or two revisions dated at WIKIEPOCH, at
\* half the time to d or at d, sorted.
GroupsUpTo(d) ==
    LET times == {WIKIEPOCH, d \div 2, d}
        Rev(n, t) == [page_id |-> 1, revision_id |-> n, timestamp |-> t]
    IN {<<Rev(1, t)>> : t \in times}
         \cup {<<Rev(1, tu[1]), Rev(2, tu[2])>> :
                    tu \in {x \in times \X times : x[1] <= x[2]}}

\* C38: whatever the periodicity, when the last date given is not after the
\* current time the list main builds ends at or after that date, every
\* revision dated at or before it is at or before a snapshot timestamp, and
\* the sweep of a page with such revisions adopts them all before the
\* timestamps run out.
C38_LastDateCovered ==
    (main_pc = "built" /\ GivenLastDate <= Days(DELTA_days)) =>
        /\ timestamps # <<>>
        /\ timestamps[Len(timestamps)] >= GivenLastDate
        /\ \A revs \in GroupsUpTo(GivenLastDate) :
              /\ \A n \in 1..Len(revs) :
                    \E k \in 1..Len(timestamps) :
                        revs[n].timestamp <= timestamps[k]
              /\ SweepEnd(SweepInit, "outer", revs, timestamps).j >= Len(revs)

\* The last date is the current day and the list ends because range(nperiods)
\* does, more than a period before endtime.
C38_Witness ==
    /\ main_pc = "built"
    /\ GivenLastDate = Days(DELTA_days)
    /\ GivenLastDate > WIKIEPOCH
    /\ Len(timestamps) = NPERIODS(periodicity, DELTA_days)
    /\ Shift(timestamps[Len(timestamps)], PERIODICITY(periodicity), 1) <= endtime

====
